---- MODULE Spec2Model ----
(***************************************************************************)
(* A model of the Morax broker core: the offset/split commit transaction   *)
(* of the metadata service together with the Kafka Produce/Fetch handlers  *)
(* and the WAL append path that drive it, the consumer-group coordinator   *)
(* (JoinGroup/SyncGroup over upsert_group_meta), and the per-connection    *)
(* packet dispatcher.  It also covers the pub/sub broker (Publish, Pull,   *)
(* Acknowledge) with its acknowledgement range engine.                     *)
(***************************************************************************)
EXTENDS Integers, Sequences, FiniteSets, TLC

(***************************************************************************)
(* Bounds of the model.                                                    *)
(***************************************************************************)
\* number of Produce / Append requests started in one behaviour
MaxRequests == 2
\* largest partition count a CreateTopic may ask for
MaxPartitions == 2
\* largest records_count / entry_cnt a client puts in a batch header
MaxCount == 2
\* how far below zero the records_count / entry_cnt of a client goes (an i32)
MaxNegCount == 1
\* largest number of batches in the records bytes of one Produce
MaxBatches == 1
\* largest fetch_offset a Fetch asks for
MaxFetchOffset == 1

\* number of JoinGroup requests started in one behaviour
MaxJoins == 2
\* number of SyncGroup requests started in one behaviour
MaxSyncs == 2

\* number of packets a client sends on the connection
MaxPackets == 3

\* number of Publish requests started in one behaviour
MaxPublishes == 2
\* largest number of messages in one PublishMessageRequest
MaxMessages == 2
\* number of Pull requests started in one behaviour
MaxPulls == 2
\* largest max_messages a Pull asks for
MaxPullMessages == 2
\* number of Acknowledge requests started in one behaviour
MaxAcknowledges == 2
\* largest number of messages in a split stored before the server starts
MaxStoredMessages == 3

\* longest list of ranges handed to merge_ranges
MaxRanges == 3
\* largest end of a range handed to merge_ranges
MaxRangeEnd == 4
\* number of times merge_ranges is called on reorderings of one list
MaxMergeRuns == 3

\* tasks spawned, callers of wait_shutdown, and wait_shutdown calls
MaxTasks == 2

MaxWaiters == 2

MaxWaits == 2

\* longest buffer handed to the varint decoders
MaxWire == 11

\* longest list of partitions or members in an encoded response
MaxEntries == 1

\* byte strings put together into a buffer of record batches
MaxChunks == 2

\* how far from 0 and from i32::MAX the sample sequences go
MaxSeqEdge == 3

\* workers that may hold a clone of the WaitGroup
MaxWorkers == 3

\* items the input stream of a BufferByUnordered produces
MaxItems == 3
\* largest max_size of a BufferByUnordered
MaxSize == 2

\* calls of task_fn a scheduled task starts, and calls of cancel
MaxCalls == 3

MaxCancels == 2

\* concurrently running request handlers (connections being served)
Handlers == {1, 2}

VARIABLES
    \* ---- metadata store (committed state) ----
    topicFormat,      \* topics row of the one topic name: "none" | "kafka" | "wal"
    topicPartitions,  \* topic_partitions: partition_id -> last_offset
    splitRows,        \* topic_partition_splits rows, in commit order
    rowLock,          \* FOR UPDATE lock of each topic_partitions row: holder or 0
    \* ---- object storage ----
    blobs,            \* split_id -> blob content (split_id = index)
    \* ---- request handlers ----
    handler,          \* Handlers -> the handler's position and locals
    fetchResp,        \* PartitionData of the last Fetch (or NoResp)
    \* ---- history ----
    reqCount,         \* requests started so far
    returned,         \* rows (split_id, start, end) whose commit call returned Ok
    committedIds,     \* split ids whose transaction committed
    abortedIds,       \* split ids whose transaction was rolled back
    badLen,           \* partitions that were asked to commit record_len < 1
    produced,         \* (partition, tag) of the Produce requests answered without error
    history,          \* facts about the requests seen so far
    fetchCtx,         \* history facts as of the last Fetch
    \* ---- consumer group coordinator ----
    groupRow,         \* the kafka_consumer_groups row of the one group id
    groupLock,        \* FOR UPDATE lock of that row: holder or 0
    groupHandler,     \* Handlers -> position and locals of a Join/SyncGroup handler
    joinReqCount,     \* JoinGroup requests started so far
    syncReqCount,     \* SyncGroup requests started so far
    joinCount,        \* JoinGroup requests that succeeded so far
    leaderStored,     \* member -> assignment the leader's last SyncGroup listed for it
    generated,        \* member ids generated so far
    declared,         \* member -> the protocols of its last successful join, as declared
    \* ---- one connection and its dispatcher ----
    connPc,           \* "idle" | "body" | "handling" | "writing" | "closed"
    netIn,            \* packets the client wrote that the broker has not read
    clientClosed,     \* the client closed its side
    cur,              \* the packet process_packet_one is working on
    netOut,           \* response frames written to the socket
    decoded,          \* the packets Request::decode accepted, in order
    handled,          \* seq of the packets handed to broker.reply, in order
    shutdownFired,    \* the shutdown latch was counted down
    closeReason,      \* why process_packet returned ("open" while it runs)
    closedAt,         \* where process_packet_one was when process_packet returned
    sentCount,        \* packets the client wrote so far
    decodeFailed,     \* seq of the first packet Request::decode rejected, or 0
    \* ---- pub/sub broker: metadata store and object storage ----
    pubTopic,         \* the topics row of the one topic name exists
    topicOffset,      \* topic_offsets.last_offset of the topic
    topicSplits,      \* topic_splits rows
    offsetLock,       \* FOR UPDATE lock of the topic_offsets row: holder or 0
    splitObjects,     \* split_id -> number of messages in the split object
    subscribed,       \* the subscriptions row of the one subscription name exists
    acks,             \* acknowledgements.acks of the subscription
    \* ---- pub/sub broker: handlers and history ----
    pubHandler,       \* Handlers -> position and locals of a Publish handler
    pull,             \* position and locals of the Pull handler
    pubReqCount,      \* Publish requests started so far
    pubResponses,     \* the successful PublishMessageResponses so far
    pullCount,        \* Pull requests started so far
    pullResp,         \* the PullMessageResponse being sent (or NoPubResp)
    ackCount,         \* Acknowledge requests started so far
    ackedIds,         \* ids of the well-formed Acknowledge requests so far
    ackResp,          \* the answer to an Acknowledge being sent (or NoPubResp)
    \* ---- merge_ranges on its own ----
    mergeIn,          \* the list handed to merge_ranges
    mergeOut,         \* the last result
    mergeFirst,       \* the result of the first call
    mergeRuns,        \* calls on the list and its reorderings so far
    mergePc,          \* "input" | "merged" | "remerged"
    \* ---- runtime ----
    latch,            \* count of the shutdown latch of the global runtimes
    task,             \* Tasks -> position of a spawned task
    waiter,           \* Waiters -> position of a caller of wait_shutdown
    waitCount,        \* wait_shutdown calls so far
    \* ---- varint codec ----
    codecPc,          \* "input" | "encoded" | "decoded"
    codecIn,          \* what is encoded or decoded, and the build
    codecBuf,         \* the bytes written, or received
    codecSize,        \* calculate_size of the value
    codecRes,         \* the outcome of the decode
    \* ---- response encoding ----
    encPc,            \* "input" | "encoded"
    encIn,            \* the response and the api version
    encOut,           \* what Response::encode did
    \* ---- record batches ----
    batPc,            \* "input" | "split" | "failed" | "panicked" | "diverged"
    batBuf,           \* RecordBatches.bytes
    batDebug,         \* the build checks arithmetic overflow
    batOut,           \* what batches / mut_batches returned
    batMutable,       \* the windows are MutableRecordBatch
    batOp,            \* the last call on a window and the buffer before it
    \* ---- producer sequences ----
    seqPc,            \* "input" | "incremented" | "decremented"
    seqIn,            \* the sequence and the increment
    seqInc,           \* what increment_sequence returned
    seqDec,           \* what decrement_sequence returned
    \* ---- wait group ----
    wgMain,           \* the WaitGroup returned by new has not been awaited yet
    wgSpawned,        \* the workers that were given a clone
    wgClones,         \* the workers whose clone is alive
    wgPc,             \* the future: "none" | "idle" | "upgraded" | "registered" | "ready"
    wgWaker,          \* Inner.waker holds a waker
    wgWoken,          \* the task awaiting the future is scheduled
    wgLastDropAt,     \* where the future was when the last clone was dropped
    \* ---- buffer_by_unordered ----
    bbStream,         \* the sizes of the (future, size) pairs the input stream produces
    bbTaken,          \* pairs the input stream has produced so far
    bbDone,           \* Fuse: the input stream has returned None
    bbPending,        \* pending_queue (positions in bbStream)
    bbInProgress,     \* in_progress_queue
    bbTotal,          \* total_size
    bbMax,            \* max_size
    bbDebug,          \* the build checks arithmetic overflow
    bbYielded,        \* the outputs the stream has yielded, in order
    bbPc,             \* "open" | "ended" (poll_next returned None) | "panicked"
    \* ---- scheduled task ----
    stPc,             \* the spawned future: "initial_delay" | "call" | "in_call" | "delay" | "dropped" | "panicked"
    stPolling,        \* a worker thread is polling the future
    stWoken,          \* the task is scheduled to be polled
    stElapsed,        \* the deadline of the current sleep has passed
    stCalls,          \* calls of task_fn started so far
    stInCall,         \* calls of task_fn that have started and not ended
    stCancels,        \* calls of cancel that have returned
    stLateCalls,      \* calls of task_fn started after a cancel had returned
    stAwait           \* task.await: "none" | "waiting" | "canceled" | "panic"

metaVars == <<topicFormat, topicPartitions, splitRows, rowLock>>
ghostVars == <<returned, committedIds, abortedIds, badLen, produced, history>>
logVars == <<metaVars, blobs, handler, fetchResp, reqCount, ghostVars, fetchCtx>>

groupVars ==
    <<groupRow, groupLock, groupHandler, joinReqCount, syncReqCount, joinCount,
      leaderStored, generated, declared>>

connVars ==
    <<connPc, netIn, clientClosed, cur, netOut, decoded, handled, shutdownFired,
      closeReason, closedAt, sentCount, decodeFailed>>

pubVars ==
    <<pubTopic, topicOffset, topicSplits, offsetLock, splitObjects, subscribed,
      acks, pubHandler, pull, pubReqCount, pubResponses, pullCount, pullResp,
      ackCount, ackedIds, ackResp>>

mergeVars == <<mergeIn, mergeOut, mergeFirst, mergeRuns, mergePc>>

runVars == <<latch, task, waiter, waitCount>>

codecVars == <<codecPc, codecIn, codecBuf, codecSize, codecRes>>

encVars == <<encPc, encIn, encOut>>

batVars == <<batPc, batBuf, batDebug, batOut, batMutable, batOp>>

seqVars == <<seqPc, seqIn, seqInc, seqDec>>

wgVars == <<wgMain, wgSpawned, wgClones, wgPc, wgWaker, wgWoken, wgLastDropAt>>

bbVars == <<bbStream, bbTaken, bbDone, bbPending, bbInProgress, bbTotal, bbMax, bbDebug, bbYielded, bbPc>>

stVars == <<stPc, stPolling, stWoken, stElapsed, stCalls, stInCall, stCancels, stLateCalls, stAwait>>

\* the parts added after the brokers
libVars == <<runVars, codecVars, encVars, batVars, seqVars,
            wgVars,
            bbVars,
            stVars>>

vars == <<logVars, groupVars, connVars, pubVars, mergeVars, libVars>>

(***************************************************************************)
(* Helpers.                                                                *)
(***************************************************************************)
Max(a, b) == IF a >= b THEN a ELSE b

RECURSIVE SumSeq(_)
SumSeq(s) == IF s = <<>> THEN 0 ELSE Head(s) + SumSeq(Tail(s))

RECURSIVE FlattenSeq(_)
FlattenSeq(ss) == IF ss = <<>> THEN <<>> ELSE Head(ss) \o FlattenSeq(Tail(ss))

RECURSIVE SetMax(_)
SetMax(S) ==
    LET x == CHOOSE y \in S : TRUE
    IN  IF S = {x} THEN x ELSE Max(x, SetMax(S \ {x}))

SeqRange(s) == {s[i] : i \in 1..Len(s)}

(***************************************************************************)
(* Kafka error codes used by the handlers.                                 *)
(***************************************************************************)
NONE == 0
UNKNOWN_SERVER_ERROR == -1
UNSUPPORTED_FOR_MESSAGE_FORMAT == 43
KAFKA_STORAGE_ERROR == 56
INVALID_RECORD == 87

(***************************************************************************)
(* Record batches.  A batch header carries the client's records_count and  *)
(* last_offset_delta; base_offset is the only field Fetch rewrites.  tag   *)
(* identifies the payload (the producing request).                         *)
(***************************************************************************)
CountVals == (0 - MaxNegCount)..MaxCount

\* the batch headers a client sends: last_offset_delta is records_count - 1 as
\* the Kafka clients set it, or 0
BatchHdrs(tag) ==
    {[records_count |-> cd[1], last_offset_delta |-> cd[2], base_offset |-> 0,
      tag |-> tag] :
        cd \in {x \in CountVals \X (0..MaxCount) : x[2] \in {0, x[1] - 1}}}

\* the records field of a partition in a ProduceRequest: null, bytes that do
\* not frame as batches, or the bytes of 0..MaxBatches batches
Bytes(kind, batches) == [kind |-> kind, batches |-> batches]

RecordsInputs(tag) ==
    {Bytes("null", <<>>), Bytes("malformed", <<>>)} \cup
    {Bytes("batches", bs) : bs \in UNION {[1..n -> BatchHdrs(tag)] : n \in 0..MaxBatches}}

\* RecordBatches::batches succeeds on well-framed bytes
BatchesOk(records) == records.kind = "batches"

\* produce.rs: record_len = sum of batch.view().records_count()
RecordLen(records) ==
    SumSeq([i \in 1..Len(records.batches) |-> records.batches[i].records_count])

\* RecordBatchView::last_offset
LastOffset(batch) == batch.base_offset + batch.last_offset_delta

\* MutableRecordBatch::set_last_offset
SetLastOffset(batch, offset) ==
    [batch EXCEPT !.base_offset = offset - batch.last_offset_delta]

\* the records a batch holds, as (offset, tag) pairs: record i has offset_delta i
BatchRecords(batch) ==
    [i \in 1..Max(batch.records_count, 0) |->
        [offset |-> batch.base_offset + (i - 1), tag |-> batch.tag]]

(***************************************************************************)
(* Metadata store.                                                         *)
(***************************************************************************)
\* the answer of a handler: a PartitionProduceResponse (index, base_offset,
\* error_code; present = FALSE when the partition gets no entry), or an
\* AppendLogResponse (start_offset, end_offset; failed = TRUE for an Err)
NoEntry ==
    [index |-> 0, base_offset |-> 0, start_offset |-> 0, end_offset |-> 0,
     error_code |-> 0, present |-> FALSE, failed |-> FALSE]

ErrorEntry(code) == [NoEntry EXCEPT !.error_code = code, !.present = TRUE]

\* a request handler that is not serving a request
Idle ==
    [pc |-> "idle", kind |-> "none", partition |-> 0, records |-> Bytes("null", <<>>),
     record_len |-> 0, split_id |-> 0, start_offset |-> 0, end_offset |-> 0,
     tag |-> 0, resp |-> NoEntry]

\* PartitionData of a FetchResponse; Default::default() is all zero and empty
DefaultPartitionData ==
    [partition_index |-> 0, error_code |-> 0, high_watermark |-> 0,
     last_stable_offset |-> 0, log_start_offset |-> 0, records |-> <<>>]

NoResp == [kind |-> "none"]

PartitionIds == DOMAIN topicPartitions

\* a SELECT without FOR UPDATE never waits
RowLockFree_NoForUpdate(part) == TRUE

\* the row is not locked by another transaction (SELECT ... FOR UPDATE waits)
RowLockFree(part) == rowLock[part] = 0

\* fetch_record_batches: committed rows of the partition with end_offset > offset
VisibleRows(part, offset) ==
    {i \in 1..Len(splitRows) :
        /\ splitRows[i].partition_id = part
        /\ splitRows[i].end_offset > offset}

\* ... ORDER BY end_offset ASC: every order of the rows that is ascending in
\* end_offset (rows with equal end_offset come in any order)
OrderedByEndOffset(idx) ==
    {s \in [1..Cardinality(idx) -> idx] :
        /\ \A i, j \in 1..Cardinality(idx) : i # j => s[i] # s[j]
        /\ \A i, j \in 1..Cardinality(idx) :
              i < j => splitRows[s[i]].end_offset <= splitRows[s[j]].end_offset}

(***************************************************************************)
(* CreateTopic: one transaction inserting the topics row and one           *)
(* topic_partitions row per partition with last_offset 0.                  *)
(***************************************************************************)
CreateTopic(fmt, n) ==
    /\ topicFormat = "none"
    /\ topicFormat' = fmt
    /\ topicPartitions' = [p \in 0..(n - 1) |-> 0]
    /\ rowLock' = [p \in 0..(n - 1) |-> 0]
    /\ UNCHANGED <<splitRows, blobs, handler, fetchResp, reqCount, ghostVars, fetchCtx>>

(***************************************************************************)
(* Request handlers.  A handler serves one request at a time; its answer   *)
(* stays in resp until it picks up the next request.                       *)
(***************************************************************************)
InFlight(h) == handler[h].pc \notin {"idle", "done"}

Done(h, kind, tag, entry) ==
    [Idle EXCEPT !.pc = "done", !.kind = kind, !.tag = tag, !.resp = entry]

\* a Produce of exactly one batch holding one record
IsUnit(records) ==
    /\ BatchesOk(records)
    /\ Len(records.batches) = 1
    /\ records.batches[1].records_count = 1
    /\ records.batches[1].last_offset_delta = 0

NoteRequest(isUnit) ==
    history' = [overlapped |-> history.overlapped \/ (\E o \in Handlers : InFlight(o)),
                nonUnit |-> history.nonUnit \/ ~isUnit]

\* receive_produce up to the storage write: topic lookup, format check,
\* decoding of the batches and record_len
StartProduce(h, part, records) ==
    /\ ~InFlight(h)
    /\ reqCount < MaxRequests
    /\ reqCount' = reqCount + 1
    /\ NoteRequest(IsUnit(records))
    /\ LET tag == reqCount + 1
           err(code) == [ErrorEntry(code) EXCEPT !.present = (records.kind # "null")]
       IN  handler' = [handler EXCEPT ![h] =
               IF topicFormat = "none" THEN Done(h, "produce", tag, err(INVALID_RECORD))
               ELSE IF topicFormat # "kafka"
                   THEN Done(h, "produce", tag, err(UNSUPPORTED_FOR_MESSAGE_FORMAT))
               ELSE IF records.kind = "null" THEN Done(h, "produce", tag, NoEntry)
               ELSE IF ~BatchesOk(records)
                   THEN Done(h, "produce", tag, ErrorEntry(INVALID_RECORD))
               ELSE [Idle EXCEPT !.pc = "write", !.kind = "produce", !.tag = tag,
                                 !.partition = part, !.records = records,
                                 !.record_len = RecordLen(records)]]
    /\ UNCHANGED <<metaVars, blobs, fetchResp, returned, committedIds, abortedIds,
                   badLen, produced, fetchCtx>>

\* WALBroker::append up to the storage write: topic lookup
StartAppend(h, entry_cnt) ==
    /\ ~InFlight(h)
    /\ reqCount < MaxRequests
    /\ reqCount' = reqCount + 1
    /\ NoteRequest(FALSE)
    /\ LET tag == reqCount + 1
       IN  handler' = [handler EXCEPT ![h] =
               IF topicFormat = "none"
                   THEN Done(h, "append", tag, [NoEntry EXCEPT !.failed = TRUE])
               ELSE [Idle EXCEPT !.pc = "write", !.kind = "append", !.tag = tag,
                                 !.partition = 0, !.records = Bytes("raw", <<>>),
                                 !.record_len = entry_cnt]]
    /\ UNCHANGED <<metaVars, blobs, fetchResp, returned, committedIds, abortedIds,
                   badLen, produced, fetchCtx>>

\* the error a handler answers when the storage write or the commit fails
FailureEntry(h) ==
    IF handler[h].kind = "produce" THEN ErrorEntry(KAFKA_STORAGE_ERROR)
    ELSE [NoEntry EXCEPT !.failed = TRUE]

\* a fresh split id (a random UUID in the code): the number of the request
NewSplitId(h) == handler[h].tag

\* topic_storage.write_to: the bytes become a blob under a fresh split id
WriteSplit(h) ==
    /\ handler[h].pc = "write"
    /\ blobs' = [id \in DOMAIN blobs \cup {NewSplitId(h)} |->
                     IF id = NewSplitId(h) THEN handler[h].records ELSE blobs[id]]
    /\ handler' = [handler EXCEPT ![h].pc = "begin", ![h].split_id = NewSplitId(h)]
    /\ badLen' = IF handler[h].record_len < 1 THEN badLen \cup {handler[h].partition}
                 ELSE badLen
    /\ UNCHANGED <<metaVars, fetchResp, reqCount, returned, committedIds, abortedIds,
                   produced, history, fetchCtx>>

\* topic_storage.write_to fails
WriteSplitFail(h) ==
    /\ handler[h].pc = "write"
    /\ handler' = [handler EXCEPT ![h] =
                       Done(h, handler[h].kind, handler[h].tag, FailureEntry(h))]
    /\ UNCHANGED <<metaVars, blobs, fetchResp, reqCount, ghostVars, fetchCtx>>

(***************************************************************************)
(* commit_record_batches, statement by statement.  The transaction's       *)
(* writes stay in the handler's locals until COMMIT.                       *)
(***************************************************************************)
\* last_offset = start_offset + record_len
NextLastOffset(start_offset, record_len) == start_offset + record_len

\* pool.begin(), SELECT id, name FROM topics WHERE name = $1, and
\* SELECT last_offset FROM topic_partitions ... FOR UPDATE, which waits for
\* the row lock and then reads the committed last_offset
TxnSelectForUpdate(h) ==
    LET part == handler[h].partition IN
    /\ handler[h].pc = "begin"
    /\ topicFormat # "none"
    /\ part \in PartitionIds
    /\ RowLockFree(part)
    /\ rowLock' = [rowLock EXCEPT ![part] = h]
    /\ handler' = [handler EXCEPT ![h].pc = "locked",
                                  ![h].start_offset = topicPartitions[part]]
    /\ UNCHANGED <<topicFormat, topicPartitions, splitRows, blobs, fetchResp, reqCount,
                   ghostVars, fetchCtx>>

\* the row INSERT INTO topic_partition_splits adds
SplitRow(partition_id, start_offset, end_offset, split_id) ==
    [partition_id |-> partition_id, start_offset |-> start_offset,
     end_offset |-> end_offset, split_id |-> split_id]

\* UPDATE topic_partitions SET last_offset = $1 ... RETURNING last_offset,
\* INSERT INTO topic_partition_splits, and txn.commit(): the writes become
\* visible and the row lock is released
TxnCommit(h) ==
    LET part == handler[h].partition
        end_offset == NextLastOffset(handler[h].start_offset, handler[h].record_len)
    IN
    /\ handler[h].pc = "locked"
    /\ topicPartitions' = [topicPartitions EXCEPT ![part] = end_offset]
    /\ splitRows' = Append(splitRows,
                           SplitRow(part, handler[h].start_offset, end_offset,
                                    handler[h].split_id))
    /\ rowLock' = [rowLock EXCEPT ![part] = 0]
    /\ committedIds' = committedIds \cup {handler[h].split_id}
    /\ handler' = [handler EXCEPT ![h].pc = "committed", ![h].end_offset = end_offset]
    /\ UNCHANGED <<topicFormat, blobs, fetchResp, reqCount, returned, abortedIds,
                   badLen, produced, history, fetchCtx>>

\* a failure after the INSERT that leaves the inserted row behind, as when the
\* statements run outside a transaction
TxnFail_NoRollback(h) ==
    LET part == handler[h].partition IN
    /\ handler[h].pc \in {"begin", "locked"}
    /\ rowLock' = [p \in DOMAIN rowLock |-> IF rowLock[p] = h THEN 0 ELSE rowLock[p]]
    /\ abortedIds' = abortedIds \cup {handler[h].split_id}
    /\ splitRows' = IF handler[h].pc = "locked"
                    THEN Append(splitRows,
                                SplitRow(part, handler[h].start_offset,
                                         NextLastOffset(handler[h].start_offset,
                                                        handler[h].record_len),
                                         handler[h].split_id))
                    ELSE splitRows
    /\ handler' = [handler EXCEPT ![h] =
                       Done(h, handler[h].kind, handler[h].tag, FailureEntry(h))]
    /\ UNCHANGED <<topicFormat, topicPartitions, blobs, fetchResp, reqCount,
                   returned, committedIds, badLen, produced, history, fetchCtx>>

\* a statement of the transaction fails (no offsets row for the partition, or
\* the database reports an error): the transaction is rolled back
TxnFail(h) ==
    LET part == handler[h].partition IN
    /\ handler[h].pc \in {"begin", "locked"}
    /\ rowLock' = [p \in DOMAIN rowLock |-> IF rowLock[p] = h THEN 0 ELSE rowLock[p]]
    /\ abortedIds' = abortedIds \cup {handler[h].split_id}
    /\ handler' = [handler EXCEPT ![h] =
                       Done(h, handler[h].kind, handler[h].tag, FailureEntry(h))]
    /\ UNCHANGED <<topicFormat, topicPartitions, splitRows, blobs, fetchResp, reqCount,
                   returned, committedIds, badLen, produced, history, fetchCtx>>

\* produce.rs: base_offset of the answer
BaseOffset(end_offset, record_len) == end_offset - record_len

\* commit_record_batches returns Ok((start_offset, end_offset)) to the handler,
\* which answers
CommitReturn(h) ==
    /\ handler[h].pc = "committed"
    /\ returned' = returned \cup {SplitRow(handler[h].partition, handler[h].start_offset,
                                          handler[h].end_offset, handler[h].split_id)}
    /\ produced' = IF handler[h].kind = "produce"
                   THEN produced \cup {<<handler[h].partition, handler[h].tag>>}
                   ELSE produced
    /\ handler' = [handler EXCEPT ![h] =
           Done(h, handler[h].kind, handler[h].tag,
                IF handler[h].kind = "produce"
                THEN [NoEntry EXCEPT !.present = TRUE, !.index = handler[h].partition,
                          !.base_offset =
                              BaseOffset(handler[h].end_offset, handler[h].record_len)]
                ELSE [NoEntry EXCEPT !.present = TRUE,
                          !.start_offset = handler[h].start_offset,
                          !.end_offset = handler[h].end_offset])]
    /\ UNCHANGED <<metaVars, blobs, fetchResp, reqCount, committedIds, abortedIds,
                   badLen, history, fetchCtx>>

(***************************************************************************)
(* Fetch handler for one (topic, partition, fetch_offset).                 *)
(***************************************************************************)
\* the batches rewritten to end at split.end_offset, one too far
RewriteSplit_EndOffset(row) ==
    [i \in 1..Len(blobs[row.split_id].batches) |->
        SetLastOffset(blobs[row.split_id].batches[i], row.end_offset)]

\* read_splits: the batches of one split, rewritten so that their last offset
\* is split.end_offset - 1
RewriteSplit(row) ==
    [i \in 1..Len(blobs[row.split_id].batches) |->
        SetLastOffset(blobs[row.split_id].batches[i], row.end_offset - 1)]

\* read_splits: committed_index
CommittedIndex(rows) ==
    (IF rows = <<>> THEN 0
     ELSE SetMax({rows[i].end_offset : i \in 1..Len(rows)})) - 1

\* read_splits over the rows the metadata query returned
ReadSplits(rows, part, storageFails) ==
    IF rows # <<>> /\ storageFails
        THEN [DefaultPartitionData EXCEPT !.error_code = KAFKA_STORAGE_ERROR]
    ELSE IF \E i \in 1..Len(rows) : ~BatchesOk(blobs[rows[i].split_id])
        THEN [DefaultPartitionData EXCEPT !.error_code = INVALID_RECORD]
    ELSE [DefaultPartitionData EXCEPT
              !.partition_index = part,
              !.high_watermark = CommittedIndex(rows),
              !.last_stable_offset = CommittedIndex(rows),
              !.records = FlattenSeq([i \in 1..Len(rows) |-> RewriteSplit(rows[i])])]

\* the facts about the run so far that a Fetch is judged against
Snapshot(rows) ==
    [sequential |-> /\ ~history.overlapped
                    /\ ~history.nonUnit
                    /\ \A h \in Handlers : ~InFlight(h),
     produced |-> produced,
     returnedIds |-> {r.split_id : r \in returned},
     committedIds |-> committedIds,
     abortedIds |-> abortedIds,
     splitIds |-> {rows[i].split_id : i \in 1..Len(rows)},
     maxEnd |-> IF rows = <<>> THEN 0
                ELSE SetMax({rows[i].end_offset : i \in 1..Len(rows)})]

\* receive_fetch: topic lookup, fetch_record_batches, read_splits
Fetch(part, offset, metaFails, storageFails) ==
    /\ fetchResp = NoResp
    /\ IF topicFormat = "none" \/ metaFails THEN
           /\ fetchResp' = [kind |-> "fetch", partition |-> part, fetch_offset |-> offset,
                            data |-> [DefaultPartitionData EXCEPT
                                          !.error_code = KAFKA_STORAGE_ERROR]]
           /\ fetchCtx' = Snapshot(<<>>)
       ELSE \E order \in OrderedByEndOffset(VisibleRows(part, offset)) :
           LET rows == [i \in 1..Len(order) |-> splitRows[order[i]]]
           IN  /\ fetchResp' = [kind |-> "fetch", partition |-> part,
                                fetch_offset |-> offset,
                                data |-> ReadSplits(rows, part, storageFails)]
               /\ fetchCtx' = Snapshot(rows)
    /\ UNCHANGED <<metaVars, blobs, handler, reqCount, ghostVars>>

(***************************************************************************)
(* The commit protocol: topic creation, concurrent Produce and Append      *)
(* handlers, and Fetch.                                                    *)
(***************************************************************************)
InitLog ==
    /\ topicFormat = "none"
    /\ topicPartitions = <<>>
    /\ splitRows = <<>>
    /\ rowLock = <<>>
    /\ blobs = <<>>
    /\ handler = [h \in Handlers |-> Idle]
    /\ fetchResp = NoResp
    /\ reqCount = 0
    /\ returned = {}
    /\ committedIds = {}
    /\ abortedIds = {}
    /\ badLen = {}
    /\ produced = {}
    /\ history = [overlapped |-> FALSE, nonUnit |-> FALSE]
    /\ fetchCtx = Snapshot(<<>>)

\* the FetchResponse is written to the connection
FetchReply ==
    /\ fetchResp # NoResp
    /\ fetchResp' = NoResp
    /\ fetchCtx' = Snapshot(<<>>)
    /\ UNCHANGED <<metaVars, blobs, handler, reqCount, ghostVars>>

\* the answer of a finished handler is written to its connection
Reply(h) ==
    /\ handler[h].pc = "done"
    /\ handler' = [handler EXCEPT ![h] = Idle]
    /\ UNCHANGED <<metaVars, blobs, fetchResp, reqCount, ghostVars, fetchCtx>>

\* no answer is waiting to be written
Quiet == fetchResp = NoResp /\ \A h \in Handlers : handler[h].pc # "done"

\* handlers are interchangeable: a new request goes to the first free one
FirstFree(h) == \A o \in Handlers : o < h => InFlight(o)

\* a connection's next request is a ProduceRequest
ReceiveProduce(h) ==
    /\ FirstFree(h)
    /\ ~InFlight(h)
    /\ reqCount < MaxRequests
    /\ \E part \in 0..MaxPartitions, records \in RecordsInputs(reqCount + 1) :
           StartProduce(h, part, records)

\* the WAL broker is asked to append
ReceiveAppend(h) ==
    /\ FirstFree(h)
    /\ ~InFlight(h)
    /\ reqCount < MaxRequests
    /\ \E cnt \in CountVals : StartAppend(h, cnt)

\* a step of the commit protocol: taken when no answer waits to be written
\* (writing an answer changes nothing the other handlers read)
LogStep(A) == Quiet /\ A /\ UNCHANGED <<groupVars, connVars, pubVars, mergeVars, libVars>>

\* an answer is written to its connection
LogReply(A) == A /\ UNCHANGED <<groupVars, connVars, pubVars, mergeVars, libVars>>

NextLog ==
    \/ \E fmt \in {"kafka", "wal"}, n \in 1..MaxPartitions : LogStep(CreateTopic(fmt, n))
    \/ \E h \in Handlers : LogStep(ReceiveProduce(h))
    \/ \E h \in Handlers : LogStep(ReceiveAppend(h))
    \/ \E h \in Handlers : LogStep(WriteSplit(h))
    \/ \E h \in Handlers : LogStep(WriteSplitFail(h))
    \/ \E h \in Handlers : LogStep(TxnSelectForUpdate(h))
    \/ \E h \in Handlers : LogStep(TxnCommit(h))
    \/ \E h \in Handlers : LogStep(TxnFail(h))
    \/ \E h \in Handlers : LogStep(CommitReturn(h))
    \/ \E part \in 0..(MaxPartitions - 1), offset \in 0..MaxFetchOffset :
           \E metaFails, storageFails \in BOOLEAN :
               LogStep(Fetch(part, offset, metaFails, storageFails))
    \/ \E h \in Handlers : LogReply(Reply(h))
    \/ LogReply(FetchReply)

(***************************************************************************)
(* The consumer group coordinator: GroupMeta and its mutators.             *)
(***************************************************************************)
INVALID_GROUP_ID == 24

\* Option::None of leader_id, protocol and protocol_type
NoneVal == "none"

\* an empty Vec<u8> (the default assignment and metadata)
EmptyBytes == ""

\* the k-th member id the broker generates: "{client_id}-{uuid}"
GeneratedId(k) == "gen-" \o ToString(k)

\* the member ids a client can send: those it read from a JoinGroupResponse
KnownMemberIds == {GeneratedId(k) : k \in 1..generated}

\* protocol names, in the order of String's Ord
ProtocolOrder == <<"range", "roundrobin">>

ProtocolNames == SeqRange(ProtocolOrder)

ProtocolTypes == {"consumer", "connect"}

\* assignment bytes a SyncGroup carries
AssignmentVals == {"a1", "a2"}

\* the protocols of a JoinGroupRequest, in the order the client declared them
ProtocolLists ==
    {<<>>} \cup {<<p>> : p \in ProtocolNames}
           \cup {pq \in ProtocolNames \X ProtocolNames : pq[1] # pq[2]}

\* the assignments of a SyncGroupRequest, collected into a BTreeMap
AssignmentMaps ==
    UNION {[S -> AssignmentVals] : S \in SUBSET KnownMemberIds}

NoMembers == [m \in {} |-> NoneVal]

\* the GroupMeta that upsert_group_meta inserts for a missing group
NewGroupMeta ==
    [exists |-> TRUE, generation_id |-> 0, leader_id |-> NoneVal,
     protocol |-> NoneVal, protocol_type |-> NoneVal, members |-> NoMembers]

\* no row for the group id
NoGroupRow == [NewGroupMeta EXCEPT !.exists = FALSE]

\* the fields of a MemberMeta that the coordinator reads back
MemberMeta(member_id, protocols) ==
    [member_id |-> member_id, protocols |-> protocols, assignment |-> EmptyBytes]

\* position of a name in the order of String's Ord
Rank(p) == CHOOSE i \in 1..Len(ProtocolOrder) : ProtocolOrder[i] = p

\* first element of a BTreeSet / first key of a BTreeMap
FirstName(S) == CHOOSE p \in S : \A q \in S : Rank(p) <= Rank(q)

candidate_protocols(g) ==
    UNION {g.members[m].protocols : m \in DOMAIN g.members}

\* the candidates a member supports; vote takes the first of them
Supported(member_meta, candidates) == candidates \cap member_meta.protocols

vote(member_meta, candidates) == FirstName(Supported(member_meta, candidates))

\* the expect in vote fails: the member supports no candidate
VotePanics(g) ==
    \E m \in DOMAIN g.members :
        Supported(g.members[m], candidate_protocols(g)) = {}

select_protocol(g) ==
    LET candidates == candidate_protocols(g)
        voted == {vote(g.members[m], candidates) : m \in DOMAIN g.members}
        votes == [p \in voted |->
                     Cardinality({m \in DOMAIN g.members :
                                      vote(g.members[m], candidates) = p})]
    IN IF DOMAIN votes = {} THEN NoneVal ELSE FirstName(DOMAIN votes)

make_next_generation_NoIncrement(g) ==
    [g EXCEPT !.protocol = IF DOMAIN g.members = {} THEN NoneVal
                           ELSE select_protocol(g)]

make_next_generation(g) ==
    [g EXCEPT !.generation_id = @ + 1,
              !.protocol = IF DOMAIN g.members = {} THEN NoneVal
                           ELSE select_protocol(g)]

\* the members map after members.insert(member_id, member)
InsertMember(members, member) ==
    [m \in DOMAIN members \cup {member.member_id} |->
        IF m = member.member_id THEN member ELSE members[m]]

Added_NoLeader(g, member, protocol_type) ==
    [g EXCEPT !.protocol_type = IF DOMAIN g.members = {} THEN protocol_type ELSE @,
              !.members = InsertMember(@, member)]

\* GroupMetaBiz::add up to the call of make_next_generation
Added(g, member, protocol_type) ==
    [g EXCEPT !.protocol_type = IF DOMAIN g.members = {} THEN protocol_type ELSE @,
              !.leader_id = IF @ = NoneVal THEN member.member_id ELSE @,
              !.members = InsertMember(@, member)]

add(g, member, protocol_type) ==
    make_next_generation(Added(g, member, protocol_type))

\* debug_assert_eq!(protocol_type, member.protocol_type) fails (debug builds)
DebugAssertFails(g, member, protocol_type) ==
    Added(g, member, protocol_type).protocol_type # protocol_type

sync(g, assignments) ==
    [g EXCEPT !.members =
        [m \in DOMAIN @ |->
            [@[m] EXCEPT !.assignment =
                IF m \in DOMAIN assignments THEN assignments[m] ELSE EmptyBytes]]]

(***************************************************************************)
(* upsert_group_meta and the JoinGroup / SyncGroup handlers.               *)
(***************************************************************************)
NoGroupResp ==
    [error_code |-> NONE, generation_id |-> 0, protocol_type |-> NoneVal,
     protocol_name |-> NoneVal, leader |-> NoneVal, member_id |-> EmptyBytes,
     members |-> NoMembers, assignment |-> EmptyBytes]

GroupIdle ==
    [pc |-> "idle", kind |-> "none", member_id |-> EmptyBytes, caller |-> EmptyBytes,
     protocol_type |-> NoneVal, protocols |-> {}, declared |-> <<>>,
     assignments |-> NoMembers, read |-> NoGroupRow, resp |-> NoGroupResp]

\* a SELECT without FOR UPDATE never waits for the row lock
GroupLockFree_NoForUpdate == TRUE

\* SELECT ... FOR UPDATE goes on when no other transaction holds the row lock
GroupLockFree == groupLock = 0

ReleaseGroupLock(h) == IF groupLock = h THEN 0 ELSE groupLock

ErrorGroupResp(code) == [NoGroupResp EXCEPT !.error_code = code]

\* the handler of request req has its response
GroupDone(req, resp) ==
    [GroupIdle EXCEPT !.pc = "done", !.kind = req.kind, !.caller = req.caller,
                      !.member_id = req.member_id, !.resp = resp]

\* the response of a handler whose upsert_group_meta returned Err
UpsertError(req) ==
    GroupDone(req, [ErrorGroupResp(UNKNOWN_SERVER_ERROR) EXCEPT
                       !.member_id = IF req.kind = "join" THEN req.member_id
                                     ELSE EmptyBytes])

\* the first statement of upsert_group_meta for request req.  With
\* insert_on_missing it is INSERT ... ON CONFLICT DO NOTHING in a transaction
\* of its own; otherwise it is SELECT ... FOR UPDATE, which waits for the row
\* lock and reads the row.  A failed statement makes the call return Err.
UpsertBegin(h, req, insert_on_missing, stmtFails) ==
    IF stmtFails
    THEN /\ groupHandler' = [groupHandler EXCEPT ![h] = UpsertError(req)]
         /\ UNCHANGED <<groupRow, groupLock>>
    ELSE IF insert_on_missing
    THEN /\ groupRow' = IF groupRow.exists THEN groupRow ELSE NewGroupMeta
         /\ groupHandler' = [groupHandler EXCEPT ![h] = [req EXCEPT !.pc = "select"]]
         /\ UNCHANGED groupLock
    ELSE /\ groupRow.exists => GroupLockFree
         /\ groupLock' = IF groupRow.exists THEN h ELSE groupLock
         /\ groupHandler' = [groupHandler EXCEPT ![h] =
                [req EXCEPT !.pc = "locked", !.read = groupRow]]
         /\ UNCHANGED groupRow

\* receive_join_group: the member id, and the call of upsert_group_meta
StartJoinGroup(h, member_id, protocol_type, protocols, stmtFails) ==
    /\ groupHandler[h].pc = "idle"
    /\ joinReqCount < MaxJoins
    /\ joinReqCount' = joinReqCount + 1
    /\ generated' = IF member_id = EmptyBytes THEN generated + 1 ELSE generated
    /\ UpsertBegin(h,
           [GroupIdle EXCEPT
               !.kind = "join",
               !.caller = member_id,
               !.member_id = IF member_id = EmptyBytes
                             THEN GeneratedId(generated + 1) ELSE member_id,
               !.protocol_type = protocol_type,
               !.protocols = SeqRange(protocols),
               !.declared = protocols],
           member_id = EmptyBytes, stmtFails)
    /\ UNCHANGED <<syncReqCount, joinCount, leaderStored, declared>>

\* receive_sync_group: the call of upsert_group_meta
StartSyncGroup(h, member_id, assignments, stmtFails) ==
    /\ groupHandler[h].pc = "idle"
    /\ syncReqCount < MaxSyncs
    /\ syncReqCount' = syncReqCount + 1
    /\ UpsertBegin(h,
           [GroupIdle EXCEPT
               !.kind = "sync",
               !.caller = member_id,
               !.member_id = member_id,
               !.assignments = assignments],
           member_id = EmptyBytes, stmtFails)
    /\ UNCHANGED <<joinReqCount, joinCount, leaderStored, generated, declared>>

\* SELECT group_meta ... FOR UPDATE in the second transaction of a call with
\* insert_on_missing: waits for the row lock, then reads the row
GroupSelectForUpdate(h) ==
    /\ groupHandler[h].pc = "select"
    /\ groupRow.exists => GroupLockFree
    /\ groupLock' = IF groupRow.exists THEN h ELSE groupLock
    /\ groupHandler' = [groupHandler EXCEPT ![h].pc = "locked", ![h].read = groupRow]
    /\ UNCHANGED <<groupRow, joinReqCount, syncReqCount, joinCount, leaderStored, generated, declared>>

\* the mutator finds no group, and the group row is written all the same
GroupNotFound_Inserts(h) ==
    /\ groupHandler[h].pc = "locked"
    /\ ~groupHandler[h].read.exists
    /\ groupHandler' = [groupHandler EXCEPT ![h] =
           GroupDone(groupHandler[h], ErrorGroupResp(INVALID_GROUP_ID))]
    /\ groupLock' = ReleaseGroupLock(h)
    /\ groupRow' = NewGroupMeta
    /\ UNCHANGED <<joinReqCount, syncReqCount, joinCount, leaderStored, generated, declared>>

\* the mutator finds no group: INVALID_GROUP_ID, and the transaction is dropped
GroupNotFound(h) ==
    /\ groupHandler[h].pc = "locked"
    /\ ~groupHandler[h].read.exists
    /\ groupHandler' = [groupHandler EXCEPT ![h] =
           GroupDone(groupHandler[h], ErrorGroupResp(INVALID_GROUP_ID))]
    /\ groupLock' = ReleaseGroupLock(h)
    /\ UNCHANGED <<groupRow, joinReqCount, syncReqCount, joinCount, leaderStored, generated, declared>>

JoinedMember(h) ==
    MemberMeta(groupHandler[h].member_id, groupHandler[h].protocols)

\* the JoinGroupResponse built from the GroupMeta the mutator returned
JoinGroupResponse(g, member_id) ==
    [NoGroupResp EXCEPT
        !.generation_id = g.generation_id,
        !.protocol_type = g.protocol_type,
        !.protocol_name = g.protocol,
        !.leader = g.leader_id,
        !.member_id = member_id,
        !.members = [m \in DOMAIN g.members |->
                        IF g.protocol \in g.members[m].protocols
                        THEN g.protocol ELSE EmptyBytes]]

\* the mutator adds the member; UPDATE and COMMIT; the response is built
JoinCommit(h) ==
    /\ groupHandler[h].pc = "locked"
    /\ groupHandler[h].kind = "join"
    /\ groupHandler[h].read.exists
    /\ ~VotePanics(Added(groupHandler[h].read, JoinedMember(h),
                           groupHandler[h].protocol_type))
    /\ LET g == add(groupHandler[h].read, JoinedMember(h),
                    groupHandler[h].protocol_type)
       IN /\ groupRow' = g
          /\ groupHandler' = [groupHandler EXCEPT ![h] =
                 GroupDone(groupHandler[h],
                           JoinGroupResponse(g, groupHandler[h].member_id))]
    /\ groupLock' = ReleaseGroupLock(h)
    /\ joinCount' = joinCount + 1
    /\ leaderStored' = [m \in DOMAIN leaderStored \ {groupHandler[h].member_id} |->
                            leaderStored[m]]
    /\ declared' = [m \in DOMAIN declared \cup {groupHandler[h].member_id} |->
                        IF m = groupHandler[h].member_id
                        THEN groupHandler[h].declared ELSE declared[m]]
    /\ UNCHANGED <<joinReqCount, syncReqCount, generated>>

\* the mutator panics in add: the expect of vote, or the debug_assert_eq of a
\* debug build; the transaction is dropped and the panic reaches the handler
JoinPanic(h) ==
    /\ groupHandler[h].pc = "locked"
    /\ groupHandler[h].kind = "join"
    /\ groupHandler[h].read.exists
    /\ \/ VotePanics(Added(groupHandler[h].read, JoinedMember(h),
                           groupHandler[h].protocol_type))
       \/ DebugAssertFails(groupHandler[h].read, JoinedMember(h),
                           groupHandler[h].protocol_type)
    /\ groupHandler' = [groupHandler EXCEPT ![h] =
           [GroupIdle EXCEPT !.pc = "panicked", !.kind = "join"]]
    /\ groupLock' = ReleaseGroupLock(h)
    /\ UNCHANGED <<groupRow, joinReqCount, syncReqCount, joinCount, leaderStored, generated, declared>>

\* the SyncGroupResponse built from the GroupMeta the mutator returned
SyncGroupResponse(g, member_id) ==
    IF member_id \in DOMAIN g.members
    THEN [NoGroupResp EXCEPT !.assignment = g.members[member_id].assignment]
    ELSE ErrorGroupResp(UNKNOWN_SERVER_ERROR)

\* the mutator stores the assignments; UPDATE and COMMIT; the response is built
SyncCommit(h) ==
    /\ groupHandler[h].pc = "locked"
    /\ groupHandler[h].kind = "sync"
    /\ groupHandler[h].read.exists
    /\ LET g == sync(groupHandler[h].read, groupHandler[h].assignments)
       IN /\ groupRow' = g
          /\ groupHandler' = [groupHandler EXCEPT ![h] =
                 GroupDone(groupHandler[h],
                           SyncGroupResponse(g, groupHandler[h].member_id))]
    /\ groupLock' = ReleaseGroupLock(h)
    /\ leaderStored' =
           IF groupHandler[h].member_id = groupHandler[h].read.leader_id
           THEN [m \in DOMAIN leaderStored \cup
                       (DOMAIN groupHandler[h].assignments
                            \cap DOMAIN groupHandler[h].read.members) |->
                    IF m \in DOMAIN groupHandler[h].assignments
                    THEN groupHandler[h].assignments[m] ELSE leaderStored[m]]
           ELSE leaderStored
    /\ UNCHANGED <<joinReqCount, syncReqCount, joinCount, generated, declared>>

\* a statement of upsert_group_meta fails (the SELECT of a call with
\* insert_on_missing, or the UPDATE or COMMIT after the mutator returned Ok):
\* the transaction is dropped and the handler answers UNKNOWN_SERVER_ERROR
UpsertFail(h) ==
    /\ groupHandler[h].pc \in {"select", "locked"}
    /\ groupHandler[h].pc = "locked" => groupHandler[h].read.exists
    /\ groupHandler' = [groupHandler EXCEPT ![h] = UpsertError(groupHandler[h])]
    /\ groupLock' = ReleaseGroupLock(h)
    /\ UNCHANGED <<groupRow, joinReqCount, syncReqCount, joinCount, leaderStored, generated, declared>>

\* the response of a finished handler is written to its connection
GroupReply(h) ==
    /\ groupHandler[h].pc = "done"
    /\ groupHandler' = [groupHandler EXCEPT ![h] = GroupIdle]
    /\ UNCHANGED <<groupRow, groupLock, joinReqCount, syncReqCount, joinCount, leaderStored, generated, declared>>

InitGroup ==
    /\ groupRow = NoGroupRow
    /\ groupLock = 0
    /\ groupHandler = [h \in Handlers |-> GroupIdle]
    /\ joinReqCount = 0
    /\ syncReqCount = 0
    /\ joinCount = 0
    /\ leaderStored = NoMembers
    /\ generated = 0
    /\ declared = [m \in {} |-> <<>>]

GroupQuiet == \A h \in Handlers : groupHandler[h].pc # "done"

GroupFirstFree(h) ==
    \A o \in Handlers : o < h => groupHandler[o].pc # "idle"

\* a connection's next request is a JoinGroupRequest
ReceiveJoinGroup(h) ==
    /\ GroupFirstFree(h)
    /\ groupHandler[h].pc = "idle"
    /\ joinReqCount < MaxJoins
    /\ \E member_id \in KnownMemberIds \cup {EmptyBytes} :
           \E protocol_type \in ProtocolTypes, protocols \in ProtocolLists :
               \E stmtFails \in BOOLEAN :
                   StartJoinGroup(h, member_id, protocol_type, protocols, stmtFails)

\* a connection's next request is a SyncGroupRequest
ReceiveSyncGroup(h) ==
    /\ GroupFirstFree(h)
    /\ groupHandler[h].pc = "idle"
    /\ syncReqCount < MaxSyncs
    /\ \E member_id \in KnownMemberIds \cup {EmptyBytes} :
           \E assignments \in AssignmentMaps, stmtFails \in BOOLEAN :
               StartSyncGroup(h, member_id, assignments, stmtFails)

\* a step of the coordinator: taken when no answer waits to be written
GroupStep(A) == GroupQuiet /\ A /\ UNCHANGED <<logVars, connVars, pubVars, mergeVars, libVars>>

NextGroup ==
    \/ \E h \in Handlers : GroupStep(ReceiveJoinGroup(h))
    \/ \E h \in Handlers : GroupStep(ReceiveSyncGroup(h))
    \/ \E h \in Handlers : GroupStep(GroupSelectForUpdate(h))
    \/ \E h \in Handlers : GroupStep(GroupNotFound(h))
    \/ \E h \in Handlers : GroupStep(JoinCommit(h))
    \/ \E h \in Handlers : GroupStep(JoinPanic(h))
    \/ \E h \in Handlers : GroupStep(SyncCommit(h))
    \/ \E h \in Handlers : GroupStep(UpsertFail(h))
    \/ \E h \in Handlers : GroupReply(h) /\ UNCHANGED <<logVars, connVars, pubVars, mergeVars, libVars>>

(***************************************************************************)
(* The packet dispatcher of one connection: process_packet and             *)
(* process_packet_one, with Request::decode and Response::encode.          *)
(***************************************************************************)
JOIN_GROUP == 11

HEARTBEAT == 12

\* an api key that ApiMessageType::try_from does not know
UNKNOWN_API_KEY == 7

\* the api keys ApiMessageType::try_from accepts
KnownApiKeys == {0, 1, 3, 9, 10, 11, 12, 14, 18, 19, 22}

ApiKeySamples == {JOIN_GROUP, HEARTBEAT, UNKNOWN_API_KEY}

\* request versions a client sends: below 7, the highest JoinGroup version, above it
VersionSamples == {5, 9, 10}

CorrelationIds == {101, 102}

\* the packets a client sends (seq numbers the packets of the connection)
PacketInputs(seq) ==
    {[seq |-> seq, api_key |-> k, api_version |-> v, correlation_id |-> c,
      body_ok |-> b, negative_len |-> n] :
        k \in ApiKeySamples, v \in VersionSamples, c \in CorrelationIds,
        b \in BOOLEAN, n \in BOOLEAN}

\* the packets the model draws from: one version for the keys whose decoders
\* ignore it, and a single packet with a negative length prefix
PacketSamples(seq) ==
    {p \in PacketInputs(seq) :
        /\ p.api_key # JOIN_GROUP => p.api_version = 9 /\ p.body_ok
        /\ ~p.body_ok => p.api_version = 9
        /\ p.negative_len =>
               p.api_key = HEARTBEAT /\ p.correlation_id = 101}

NoPacket ==
    [seq |-> 0, api_key |-> 0, api_version |-> 0, correlation_id |-> 0,
     body_ok |-> FALSE, negative_len |-> FALSE]

\* JoinGroupRequest::read rejects versions above 9; HeartbeatRequest::read
\* does not look at the version
RequestReadOk(p) ==
    /\ p.body_ok
    /\ p.api_key = JOIN_GROUP => p.api_version <= 9

\* Request::decode: the api key is known, header and body can be read
RequestDecodes(p) == p.api_key \in KnownApiKeys /\ RequestReadOk(p)

\* Response::encode: JoinGroupResponse::write fails below version 7 when
\* protocol_name is None
EncodeOk(p, protocol_name) ==
    ~(p.api_key = JOIN_GROUP /\ p.api_version < 7 /\ protocol_name = NoneVal)

EncodeResponse_ZeroCorrelation(p) ==
    [seq |-> p.seq, correlation_id |-> 0, complete |-> TRUE]

\* the frame Response::encode builds: its header carries the correlation_id
\* of the request header
EncodeResponse(p) ==
    [seq |-> p.seq, correlation_id |-> p.correlation_id, complete |-> TRUE]

\* the frame cut short: write_all wrote only a part of it
Truncated(frame) == [frame EXCEPT !.complete = FALSE]

AfterDecode_SkipPacket(p) == IF RequestDecodes(p) THEN "handling" ELSE "idle"

\* process_packet_one after the body is read: the handler is called, or the
\* decode error is returned and process_packet ends
AfterDecode(p) == IF RequestDecodes(p) THEN "handling" ELSE "closed"

\* the client writes a packet to the socket
ClientSend(p) ==
    /\ ~clientClosed
    /\ sentCount < MaxPackets
    /\ sentCount' = sentCount + 1
    /\ netIn' = Append(netIn, p)
    /\ UNCHANGED <<connPc, clientClosed, cur, netOut, decoded, handled,
                   shutdownFired, closeReason, closedAt,
                   decodeFailed>>

\* the client closes its side of the connection
ClientClose ==
    /\ ~clientClosed
    /\ clientClosed' = TRUE
    /\ UNCHANGED <<connPc, netIn, cur, netOut, decoded, handled, shutdownFired,
                   closeReason, closedAt, sentCount,
                   decodeFailed>>

\* process_packet returns: the connection is closed
Close(reason) ==
    /\ connPc' = "closed"
    /\ closeReason' = reason
    /\ closedAt' = connPc

\* read_exact of the length prefix
ReadLength ==
    /\ connPc = "idle"
    /\ netIn # <<>>
    /\ ~Head(netIn).negative_len
    /\ connPc' = "body"
    /\ cur' = Head(netIn)
    /\ netIn' = Tail(netIn)
    /\ UNCHANGED <<clientClosed, netOut, decoded, handled, shutdownFired,
                   closeReason, closedAt, sentCount,
                   decodeFailed>>

\* read_exact of the length prefix meets the end of the stream: Ok(true)
ReadEof ==
    /\ connPc = "idle"
    /\ netIn = <<>>
    /\ clientClosed
    /\ Close("eof")
    /\ UNCHANGED <<netIn, clientClosed, cur, netOut, decoded, handled,
                   shutdownFired, sentCount,
                   decodeFailed>>

\* a negative length prefix cast to usize: vec![0u8; n] panics and the
\* connection's task ends (the panic reaches Runtime::spawn, which counts down
\* the latch of the runtime, not the one this loop selects on)
ReadLengthPanic ==
    /\ connPc = "idle"
    /\ netIn # <<>>
    /\ Head(netIn).negative_len
    /\ cur' = Head(netIn)
    /\ netIn' = Tail(netIn)
    /\ Close("panic")
    /\ UNCHANGED <<clientClosed, netOut, decoded, handled, shutdownFired, sentCount,
                   decodeFailed>>

\* read_exact of the body, Request::decode, and the call of broker.reply
ReadBody ==
    /\ connPc = "body"
    /\ IF AfterDecode(cur) = "closed"
       THEN /\ Close("decode")
            /\ UNCHANGED <<decoded, handled>>
       ELSE /\ connPc' = AfterDecode(cur)
            /\ decoded' = IF RequestDecodes(cur) THEN Append(decoded, cur) ELSE decoded
            /\ handled' = IF AfterDecode(cur) = "handling"
                          THEN Append(handled, cur.seq) ELSE handled
            /\ UNCHANGED <<closeReason, closedAt>>
    /\ decodeFailed' = IF ~RequestDecodes(cur) /\ decodeFailed = 0
                       THEN cur.seq ELSE decodeFailed
    /\ UNCHANGED <<netIn, clientClosed, cur, netOut, shutdownFired, sentCount>>

\* broker.reply returns a response and Response::encode runs; protocol_name
\* is the field of a JoinGroupResponse (None in its error responses)
HandlerReturns(protocol_name) ==
    /\ connPc = "handling"
    /\ cur.api_key # JOIN_GROUP => protocol_name # NoneVal
    /\ IF EncodeOk(cur, protocol_name)
       THEN /\ connPc' = "writing"
            /\ UNCHANGED <<closeReason, closedAt>>
       ELSE Close("encode")
    /\ UNCHANGED <<netIn, clientClosed, cur, netOut, decoded, handled,
                   shutdownFired, sentCount,
                   decodeFailed>>

\* the handler panics (the expect in vote of a JoinGroup) and the connection's
\* task ends (the panic reaches Runtime::spawn, which counts down the latch of
\* the runtime, not the one this loop selects on)
HandlerPanics ==
    /\ connPc = "handling"
    /\ cur.api_key = JOIN_GROUP
    /\ Close("panic")
    /\ UNCHANGED <<netIn, clientClosed, cur, netOut, decoded, handled, shutdownFired,
                   sentCount, decodeFailed>>

\* write_all writes the whole frame
WriteDone ==
    /\ connPc = "writing"
    /\ netOut' = Append(netOut, EncodeResponse(cur))
    /\ connPc' = "idle"
    /\ UNCHANGED <<netIn, clientClosed, cur, decoded, handled, shutdownFired,
                   closeReason, closedAt, sentCount,
                   decodeFailed>>

\* what reaches the client of a frame whose write is cut off
CutOff(partly) ==
    IF partly THEN Append(netOut, Truncated(EncodeResponse(cur))) ELSE netOut

\* write_all fails, possibly after a part of the frame was written
WriteFail(partly) ==
    /\ connPc = "writing"
    /\ netOut' = CutOff(partly)
    /\ Close("io")
    /\ UNCHANGED <<netIn, clientClosed, cur, decoded, handled, shutdownFired,
                   sentCount,
                   decodeFailed>>

\* the shutdown latch of the server is counted down (ServerState::shutdown)
Shutdown ==
    /\ ~shutdownFired
    /\ shutdownFired' = TRUE
    /\ UNCHANGED <<connPc, netIn, clientClosed, cur, netOut, decoded, handled,
                   closeReason, closedAt, sentCount,
                   decodeFailed>>

\* select! takes the shutdown branch and drops the process_packet_one future,
\* wherever it is
ExitOnShutdown(partly) ==
    /\ shutdownFired
    /\ connPc # "closed"
    /\ partly => connPc = "writing"
    /\ netOut' = IF connPc = "writing" THEN CutOff(partly) ELSE netOut
    /\ Close("shutdown")
    /\ UNCHANGED <<netIn, clientClosed, cur, decoded, handled, shutdownFired,
                   sentCount,
                   decodeFailed>>

InitConn ==
    /\ connPc = "idle"
    /\ netIn = <<>>
    /\ clientClosed = FALSE
    /\ cur = NoPacket
    /\ netOut = <<>>
    /\ decoded = <<>>
    /\ handled = <<>>
    /\ shutdownFired = FALSE
    /\ closeReason = "open"
    /\ closedAt = "open"
    /\ sentCount = 0
    /\ decodeFailed = 0

ConnStep(A) == A /\ UNCHANGED <<logVars, groupVars, pubVars, mergeVars, libVars>>

NextConn ==
    \/ \E p \in PacketSamples(sentCount + 1) : ConnStep(ClientSend(p))
    \/ ConnStep(ClientClose)
    \/ ConnStep(ReadLength)
    \/ ConnStep(ReadEof)
    \/ ConnStep(ReadLengthPanic)
    \/ ConnStep(ReadBody)
    \/ \E protocol_name \in {NoneVal, "range"} : ConnStep(HandlerReturns(protocol_name))
    \/ ConnStep(HandlerPanics)
    \/ ConnStep(WriteDone)
    \/ \E partly \in BOOLEAN : ConnStep(WriteFail(partly))
    \/ ConnStep(Shutdown)
    \/ \E partly \in BOOLEAN : ConnStep(ExitOnShutdown(partly))

(***************************************************************************)
(* The acknowledgement range engine: merge_ranges and the unacked ranges   *)
(* of a pull.  A range is a pair <<start, end>>, left-closed right-open.   *)
(***************************************************************************)
\* Ord of (i64, i64): by start, then by end
RangeLess(a, b) == a[1] < b[1] \/ (a[1] = b[1] /\ a[2] < b[2])

RECURSIVE InsertSorted(_, _)
InsertSorted(r, s) ==
    IF s = <<>> THEN <<r>>
    ELSE IF RangeLess(Head(s), r) THEN <<Head(s)>> \o InsertSorted(r, Tail(s))
    ELSE <<r>> \o s

\* ranges.sort()
RECURSIVE SortRanges(_)
SortRanges(s) ==
    IF s = <<>> THEN <<>> ELSE InsertSorted(Head(s), SortRanges(Tail(s)))

ExtendRange_NoMax(current_range, range) == <<current_range[1], range[2]>>

\* current_range.1 = current_range.1.max(range.1)
ExtendRange(current_range, range) ==
    <<current_range[1], Max(current_range[2], range[2])>>

\* the loop of merge_ranges over ranges.iter().skip(1), and the final push
RECURSIVE Sweep(_, _, _)
Sweep(rest, current_range, merged_ranges) ==
    IF rest = <<>> THEN Append(merged_ranges, current_range)
    ELSE IF Head(rest)[1] <= current_range[2]
         THEN Sweep(Tail(rest), ExtendRange(current_range, Head(rest)), merged_ranges)
         ELSE Sweep(Tail(rest), Head(rest), Append(merged_ranges, current_range))

merge_ranges(ranges) ==
    IF Len(ranges) <= 1 THEN ranges
    ELSE Sweep(Tail(SortRanges(ranges)), Head(SortRanges(ranges)), <<>>)

\* the ids a list of ranges covers
Covered(ranges) ==
    UNION {ranges[i][1]..(ranges[i][2] - 1) : i \in 1..Len(ranges)}

\* the loop of Broker::pull over the stored acks, and the push of the tail
RECURSIVE UnackedSweep(_, _, _)
UnackedSweep(rest, current, ranges) ==
    IF rest = <<>> THEN <<current, ranges>>
    ELSE UnackedSweep(Tail(rest), Head(rest),
                      IF Head(rest)[1] > current[2]
                      THEN Append(ranges, <<current[2], Head(rest)[1]>>)
                      ELSE ranges)

UnackedRanges(stored, max_messages) ==
    LET swept == UnackedSweep(stored, <<0, 0>>, <<>>)
    IN  Append(swept[2], <<swept[1][2], swept[1][2] + max_messages>>)

(***************************************************************************)
(* The pub/sub broker: Publish, Pull and Acknowledge of one topic and one  *)
(* subscription.                                                           *)
(***************************************************************************)
\* i64::to_string of an offset
IdString(id) == ToString(id)

\* the offsets a topic of this model can reach
Offsets == 0..(MaxPublishes * MaxMessages)

\* str::parse::<i64>: the number a decimal string denotes, or an error
ParseId(s) ==
    IF \E n \in Offsets : IdString(n) = s
    THEN [ok |-> TRUE, id |-> CHOOSE n \in Offsets : IdString(n) = s]
    ELSE [ok |-> FALSE, id |-> 0]

\* ack_ids a client sends: ids a pull returned, and one that is no number
AckIdSamples == {"0", "1", "x"}

AckIdLists ==
    {<<>>} \cup {<<a>> : a \in AckIdSamples}
           \cup {<<a, b>> : a \in AckIdSamples, b \in AckIdSamples}

\* the parameters the first statement of acknowledge mentions ($1) and the
\* values bound to it (none)
SelectAcksParams == 1

SelectAcksBinds == 0

\* the prepared statement runs only if every parameter has a value
StatementRuns(params, binds) == params = binds

\* acks.push((ack_id, ack_id + 1)) for each ack_id
RECURSIVE PushAcks(_, _)
PushAcks(stored, ack_ids) ==
    IF ack_ids = <<>> THEN stored
    ELSE PushAcks(Append(stored, <<Head(ack_ids), Head(ack_ids) + 1>>), Tail(ack_ids))

PubIdle == [pc |-> "idle", req |-> 0, count |-> 0, start_offset |-> 0]

NoPull == [pc |-> "idle", max_messages |-> 0, acks |-> <<>>, ranges |-> <<>>,
           intervals |-> <<>>, splits |-> <<>>]

NoPubResp == [kind |-> "none"]

PubLockFree_NoForUpdate == TRUE

\* no other transaction holds the topic_offsets row FOR UPDATE
PubLockFree == offsetLock = 0

ReleaseOffsetLock(h) == IF offsetLock = h THEN 0 ELSE offsetLock

\* CreateTopic: the topics row and its topic_offsets row, last_offset 0
PubCreateTopic ==
    /\ ~pubTopic
    /\ pubTopic' = TRUE
    /\ topicOffset' = 0
    /\ UNCHANGED <<topicSplits, offsetLock, splitObjects, subscribed, acks,
                   pubHandler, pull, pubReqCount, pubResponses, pullCount,
                   pullResp, ackCount, ackedIds, ackResp>>

\* create_subscription: the topic must exist and the name be new; the
\* subscriptions row and its acknowledgements row with acks '{}'
CreateSubscription ==
    /\ pubTopic
    /\ ~subscribed
    /\ subscribed' = TRUE
    /\ acks' = <<>>
    /\ UNCHANGED <<pubTopic, topicOffset, topicSplits, offsetLock, splitObjects,
                   pubHandler, pull, pubReqCount, pubResponses, pullCount,
                   pullResp, ackCount, ackedIds, ackResp>>

\* Broker::publish up to the call of commit_topic_splits: get_topic_by_name,
\* then the messages are serialized and written as one split
PublishStart(h, count, writeFails) ==
    /\ pubTopic
    /\ pubReqCount' = pubReqCount + 1
    /\ IF writeFails
       THEN UNCHANGED <<pubHandler, splitObjects>>
       ELSE /\ pubHandler' = [pubHandler EXCEPT ![h] =
                   [PubIdle EXCEPT !.pc = "written", !.req = pubReqCount + 1,
                                   !.count = count]]
            /\ splitObjects' = [id \in DOMAIN splitObjects \cup {pubReqCount + 1} |->
                                   IF id = pubReqCount + 1 THEN count
                                   ELSE splitObjects[id]]
    /\ UNCHANGED <<pubTopic, topicOffset, topicSplits, offsetLock, subscribed, acks,
                   pull, pubResponses, pullCount, pullResp, ackCount, ackedIds,
                   ackResp>>

\* SELECT last_offset FROM topic_offsets ... FOR UPDATE
PublishSelectForUpdate(h) ==
    /\ pubHandler[h].pc = "written"
    /\ PubLockFree
    /\ offsetLock' = h
    /\ pubHandler' = [pubHandler EXCEPT ![h].pc = "locked",
                                        ![h].start_offset = topicOffset]
    /\ UNCHANGED <<pubTopic, topicOffset, topicSplits, splitObjects, subscribed,
                   acks, pull, pubReqCount, pubResponses, pullCount, pullResp,
                   ackCount, ackedIds, ackResp>>

TopicSplit(split_id, start_offset, end_offset) ==
    [split_id |-> split_id, start_offset |-> start_offset, end_offset |-> end_offset]

\* (start..end).map(|id| id.to_string())
MessageIds(start, end) == [i \in 1..(end - start) |-> IdString(start + i - 1)]

\* UPDATE topic_offsets, INSERT INTO topic_splits, COMMIT; publish answers
\* with the ids of the committed range
PublishCommit(h) ==
    /\ pubHandler[h].pc = "locked"
    /\ LET start == pubHandler[h].start_offset
           end == pubHandler[h].start_offset + pubHandler[h].count
       IN /\ topicOffset' = end
          /\ topicSplits' = topicSplits \cup {TopicSplit(pubHandler[h].req, start, end)}
          /\ pubResponses' = pubResponses \cup
                 {[req |-> pubHandler[h].req, count |-> pubHandler[h].count,
                   message_ids |-> MessageIds(start, end)]}
    /\ offsetLock' = ReleaseOffsetLock(h)
    /\ pubHandler' = [pubHandler EXCEPT ![h] = PubIdle]
    /\ UNCHANGED <<pubTopic, splitObjects, subscribed, acks, pull, pubReqCount,
                   pullCount, pullResp, ackCount, ackedIds, ackResp>>

\* a statement of commit_topic_splits fails: the transaction is rolled back
\* and publish answers with an error; the split object stays
PublishFail(h) ==
    /\ pubHandler[h].pc \in {"written", "locked"}
    /\ offsetLock' = ReleaseOffsetLock(h)
    /\ pubHandler' = [pubHandler EXCEPT ![h] = PubIdle]
    /\ UNCHANGED <<pubTopic, topicOffset, topicSplits, splitObjects, subscribed,
                   acks, pull, pubReqCount, pubResponses, pullCount, pullResp,
                   ackCount, ackedIds, ackResp>>

\* Broker::pull up to the unacked ranges: get_subscription_by_name, list_acks
\* and the loop over the acks
PullStart(max_messages) ==
    /\ pull.pc = "idle"
    /\ subscribed
    /\ pullCount' = pullCount + 1
    /\ pull' = [NoPull EXCEPT !.pc = "fetching", !.max_messages = max_messages,
                              !.acks = acks,
                              !.ranges = UnackedRanges(acks, max_messages),
                              !.intervals = UnackedRanges(acks, max_messages)]
    /\ UNCHANGED <<pubTopic, topicOffset, topicSplits, offsetLock, splitObjects,
                   subscribed, acks, pubHandler, pubReqCount, pubResponses,
                   pullResp, ackCount, ackedIds, ackResp>>

\* the rows of a set of splits, as a list ordered by start_offset
RECURSIVE SplitList(_)
SplitList(rows) ==
    IF rows = {} THEN <<>>
    ELSE LET first == CHOOSE r \in rows :
                          \A o \in rows : <<r.start_offset, r.split_id>> = <<o.start_offset, o.split_id>>
                                          \/ RangeLess(<<r.start_offset, r.split_id>>,
                                                       <<o.start_offset, o.split_id>>)
         IN  <<first>> \o SplitList(rows \ {first})

\* fetch_topic_splits: the splits that overlap [start_offset, end_offset)
fetch_topic_splits(rows, start_offset, end_offset) ==
    SplitList({r \in rows : r.start_offset < end_offset /\ r.end_offset > start_offset})

\* one round of the loop over the unacked ranges: a fetch_topic_splits
\* transaction of its own
PullFetchSplits ==
    /\ pull.pc = "fetching"
    /\ pull.ranges # <<>>
    /\ pull' = [pull EXCEPT
           !.ranges = Tail(@),
           !.splits = @ \o fetch_topic_splits(topicSplits, Head(pull.ranges)[1],
                                              Head(pull.ranges)[2])]
    /\ UNCHANGED <<pubTopic, topicOffset, topicSplits, offsetLock, splitObjects,
                   subscribed, acks, pubHandler, pubReqCount, pubResponses,
                   pullCount, pullResp, ackCount, ackedIds, ackResp>>

\* the ids of the messages of one split: split.start_offset + i for the i-th
\* message of the split object
SplitMessageIds(split) ==
    [i \in 1..splitObjects[split.split_id] |-> split.start_offset + i - 1]

RECURSIVE ReadMessages(_)
ReadMessages(splits) ==
    IF splits = <<>> THEN <<>>
    ELSE SplitMessageIds(Head(splits)) \o ReadMessages(Tail(splits))

\* the loop over the fetched splits: read_split, deserialize, number the
\* messages; pull answers with all of them
PullRead ==
    /\ pull.pc = "fetching"
    /\ pull.ranges = <<>>
    /\ pullResp' = [kind |-> "pull", max_messages |-> pull.max_messages,
                    acks |-> pull.acks, intervals |-> pull.intervals,
                    ids |-> ReadMessages(pull.splits),
                    ack_ids |-> [i \in 1..Len(ReadMessages(pull.splits)) |->
                                    IdString(ReadMessages(pull.splits)[i])]]
    /\ pull' = NoPull
    /\ UNCHANGED <<pubTopic, topicOffset, topicSplits, offsetLock, splitObjects,
                   subscribed, acks, pubHandler, pubReqCount, pubResponses,
                   pullCount, ackCount, ackedIds, ackResp>>

\* a statement of fetch_topic_splits or a read_split fails: pull answers with
\* an error
PullFail ==
    /\ pull.pc = "fetching"
    /\ pull' = NoPull
    /\ UNCHANGED <<pubTopic, topicOffset, topicSplits, offsetLock, splitObjects,
                   subscribed, acks, pubHandler, pubReqCount, pubResponses,
                   pullCount, pullResp, ackCount, ackedIds, ackResp>>

\* the parsed ack_ids, or an error at the first that is no number
AllParse(ack_ids) == \A i \in 1..Len(ack_ids) : ParseId(ack_ids[i]).ok

ParsedIds(ack_ids) == [i \in 1..Len(ack_ids) |-> ParseId(ack_ids[i]).id]

\* PostgresMetaService::acknowledge: the SELECT ... FOR UPDATE, the pushes,
\* merge_ranges and the UPDATE; nothing is written when the SELECT fails
AcknowledgeStored(stored, ids) ==
    IF StatementRuns(SelectAcksParams, SelectAcksBinds)
    THEN [ok |-> TRUE, acks |-> merge_ranges(PushAcks(stored, ids))]
    ELSE [ok |-> FALSE, acks |-> stored]

\* Broker::acknowledge: get_subscription_by_name, the parse of the ack_ids and
\* the call of the metadata service
Acknowledge(ack_ids) ==
    /\ subscribed
    /\ ackCount' = ackCount + 1
    /\ IF AllParse(ack_ids)
       THEN /\ acks' = AcknowledgeStored(acks, ParsedIds(ack_ids)).acks
            /\ ackedIds' = ackedIds \cup SeqRange(ParsedIds(ack_ids))
            /\ ackResp' = [kind |-> "ack", ack_ids |-> ack_ids, well_formed |-> TRUE,
                           ok |-> AcknowledgeStored(acks, ParsedIds(ack_ids)).ok]
       ELSE /\ UNCHANGED <<acks, ackedIds>>
            /\ ackResp' = [kind |-> "ack", ack_ids |-> ack_ids,
                           well_formed |-> FALSE, ok |-> FALSE]
    /\ UNCHANGED <<pubTopic, topicOffset, topicSplits, offsetLock, splitObjects,
                   subscribed, pubHandler, pull, pubReqCount, pubResponses,
                   pullCount, pullResp>>

\* the response of a Pull or an Acknowledge is written to the client
PubReply ==
    /\ pullResp # NoPubResp \/ ackResp # NoPubResp
    /\ pullResp' = NoPubResp
    /\ ackResp' = NoPubResp
    /\ UNCHANGED <<pubTopic, topicOffset, topicSplits, offsetLock, splitObjects,
                   subscribed, acks, pubHandler, pull, pubReqCount, pubResponses,
                   pullCount, ackCount, ackedIds>>

InitPub ==
    /\ pubTopic = FALSE
    /\ topicOffset = 0
    /\ topicSplits = {}
    /\ offsetLock = 0
    /\ splitObjects = [id \in {} |-> 0]
    /\ subscribed = FALSE
    /\ acks = <<>>
    /\ pubHandler = [h \in Handlers |-> PubIdle]
    /\ pull = NoPull
    /\ pubReqCount = 0
    /\ pubResponses = {}
    /\ pullCount = 0
    /\ pullResp = NoPubResp
    /\ ackCount = 0
    /\ ackedIds = {}
    /\ ackResp = NoPubResp

\* rows of acknowledgements.acks as acknowledge stores them: the result of
\* merge_ranges on pushed ranges (ack_id, ack_id + 1)
StoredAcksSamples ==
    {merge_ranges(PushAcks(<<>>, ids)) : ids \in {<<>>, <<0>>, <<1>>, <<0, 1>>, <<1, 3>>}}

\* lists of message counts of the publishes that filled the topic earlier
StoredPublishSamples ==
    UNION {[1..n -> 1..MaxStoredMessages] : n \in 1..2}

RECURSIVE SumTo(_, _)
SumTo(counts, n) == IF n = 0 THEN 0 ELSE SumTo(counts, n - 1) + counts[n]

\* the topic_splits rows that commit_topic_splits stored for those publishes
StoredSplits(counts) ==
    {TopicSplit(i, SumTo(counts, i - 1), SumTo(counts, i)) : i \in 1..Len(counts)}

\* the database of a server that starts with a topic, the splits of earlier
\* publishes, a subscription on the topic and its acknowledgements row
InitPubStored ==
    /\ pubTopic = TRUE
    /\ \E counts \in StoredPublishSamples :
           /\ topicOffset = SumTo(counts, Len(counts))
           /\ topicSplits = StoredSplits(counts)
           /\ splitObjects = counts
           /\ pubReqCount = Len(counts)
    /\ offsetLock = 0
    /\ subscribed = TRUE
    /\ acks \in StoredAcksSamples
    /\ pubHandler = [h \in Handlers |-> PubIdle]
    /\ pull = NoPull
    /\ pubResponses = {}
    /\ pullCount = 0
    /\ pullResp = NoPubResp
    /\ ackCount = 0
    /\ ackedIds = {}
    /\ ackResp = NoPubResp

PubQuiet == pullResp = NoPubResp /\ ackResp = NoPubResp

PubFirstFree(h) == \A o \in Handlers : o < h => pubHandler[o].pc # "idle"

ReceivePublish(h) ==
    /\ pubHandler[h].pc = "idle"
    /\ PubFirstFree(h)
    /\ pubReqCount < MaxPublishes
    /\ \E count \in 0..MaxMessages, writeFails \in BOOLEAN :
           PublishStart(h, count, writeFails)

ReceivePull ==
    /\ pullCount < MaxPulls
    /\ \E max_messages \in 0..MaxPullMessages : PullStart(max_messages)

ReceiveAcknowledge ==
    /\ ackCount < MaxAcknowledges
    /\ \E ack_ids \in AckIdLists : Acknowledge(ack_ids)

PubStep(A) == PubQuiet /\ A /\ UNCHANGED <<logVars, groupVars, connVars, mergeVars, libVars>>

PubAnswer(A) == A /\ UNCHANGED <<logVars, groupVars, connVars, mergeVars, libVars>>

NextPub ==
    \/ PubStep(PubCreateTopic)
    \/ PubStep(CreateSubscription)
    \/ \E h \in Handlers : PubStep(ReceivePublish(h))
    \/ \E h \in Handlers : PubStep(PublishSelectForUpdate(h))
    \/ \E h \in Handlers : PubStep(PublishCommit(h))
    \/ \E h \in Handlers : PubStep(PublishFail(h))
    \/ PubStep(ReceivePull)
    \/ PubStep(PullFetchSplits)
    \/ PubStep(PullRead)
    \/ PubStep(PullFail)
    \/ PubStep(ReceiveAcknowledge)
    \/ PubAnswer(PubReply)

\* the subscribers alone: Pull and Acknowledge calls
NextPull ==
    \/ PubStep(ReceivePull)
    \/ PubStep(PullFetchSplits)
    \/ PubStep(PullRead)
    \/ PubStep(PullFail)
    \/ PubStep(ReceiveAcknowledge)
    \/ PubAnswer(PubReply)

\* the publishers alone: CreateTopic and concurrent Publish calls
NextPublish ==
    \/ PubStep(PubCreateTopic)
    \/ \E h \in Handlers : PubStep(ReceivePublish(h))
    \/ \E h \in Handlers : PubStep(PublishSelectForUpdate(h))
    \/ \E h \in Handlers : PubStep(PublishCommit(h))
    \/ \E h \in Handlers : PubStep(PublishFail(h))

(***************************************************************************)
(* merge_ranges applied to lists of ranges: merged, merged again, and      *)
(* merged after its input was reordered.                                   *)
(***************************************************************************)
\* the ranges (s, e) with s < e
RangeSamples == {r \in (0..MaxRangeEnd) \X (0..MaxRangeEnd) : r[1] < r[2]}

RECURSIVE RangeLists(_)
RangeLists(n) ==
    IF n = 0 THEN {<<>>}
    ELSE RangeLists(n - 1) \cup
         {Append(l, r) : l \in {m \in RangeLists(n - 1) : Len(m) = n - 1},
                         r \in RangeSamples}

\* merge_ranges is called on the list
MergeCall ==
    /\ mergePc = "input"
    /\ mergeOut' = merge_ranges(mergeIn)
    /\ mergeFirst' = IF mergeRuns = 0 THEN merge_ranges(mergeIn) ELSE mergeFirst
    /\ mergeRuns' = mergeRuns + 1
    /\ mergePc' = "merged"
    /\ UNCHANGED mergeIn

\* merge_ranges is called on its own result
MergeAgain ==
    /\ mergePc = "merged"
    /\ mergeOut' = merge_ranges(mergeOut)
    /\ mergePc' = "remerged"
    /\ UNCHANGED <<mergeIn, mergeFirst, mergeRuns>>

\* the caller swaps two neighbours of the list and starts over
MergeSwap(i) ==
    /\ mergePc # "input"
    /\ mergeRuns < MaxMergeRuns
    /\ mergeIn' = [mergeIn EXCEPT ![i] = mergeIn[i + 1], ![i + 1] = mergeIn[i]]
    /\ mergePc' = "input"
    /\ UNCHANGED <<mergeOut, mergeFirst, mergeRuns>>

InitMerge ==
    /\ mergeIn = <<>>
    /\ mergeOut = <<>>
    /\ mergeFirst = <<>>
    /\ mergeRuns = 0
    /\ mergePc = "input"

InitMergeInputs ==
    /\ mergeIn \in RangeLists(MaxRanges)
    /\ mergeOut = <<>>
    /\ mergeFirst = <<>>
    /\ mergeRuns = 0
    /\ mergePc = "input"

MergeStep(A) == A /\ UNCHANGED <<logVars, groupVars, connVars, pubVars, libVars>>

NextMerge ==
    \/ MergeStep(MergeCall)
    \/ MergeStep(MergeAgain)
    \/ \E i \in 1..(Len(mergeIn) - 1) : MergeStep(MergeSwap(i))

(***************************************************************************)
(* The runtime: tasks spawned through Runtime::spawn and                   *)
(* Runtime::spawn_blocking, the shutdown latch of the global runtimes and  *)
(* the callers of wait_shutdown.                                           *)
(***************************************************************************)
Tasks == 1..MaxTasks

Waiters == 1..MaxWaiters

NoTask == [pc |-> "none", blocking |-> FALSE]

NoWait == [pc |-> "none", afterPanic |-> FALSE]

\* Latch::count_down: decrements the count unless it is 0 already
count_down(count) == IF count > 0 THEN count - 1 ELSE 0

\* the payload of a panic has been caught or rethrown in task t
Panicked(t) == task[t].pc \in {"caught", "panicked"}

\* Runtime::spawn (blocking = FALSE) or Runtime::spawn_blocking: the future or
\* closure starts running under catch_unwind
spawn(t, blocking) ==
    /\ task[t].pc = "none"
    /\ \A o \in Tasks : o < t => task[o].pc # "none"
    /\ task' = [task EXCEPT ![t] = [pc |-> "running", blocking |-> blocking]]
    /\ UNCHANGED <<latch, waiter, waitCount>>

\* the future or closure returns its output
TaskReturns(t) ==
    /\ task[t].pc = "running"
    /\ task' = [task EXCEPT ![t].pc = "finished"]
    /\ UNCHANGED <<latch, waiter, waitCount>>

\* the future or closure panics: catch_unwind returns Err(payload)
TaskPanics(t) ==
    /\ task[t].pc = "running"
    /\ task' = [task EXCEPT ![t].pc = "caught"]
    /\ UNCHANGED <<latch, waiter, waitCount>>

\* a handler that rethrows the payload without calling shutdown
OnPanic_NoShutdown(t) ==
    /\ task[t].pc = "caught"
    /\ task' = [task EXCEPT ![t].pc = "panicked"]
    /\ UNCHANGED <<latch, waiter, waitCount>>

\* the map_err closure: log the payload, crate::shutdown(), resume_unwind
OnPanic(t) ==
    /\ task[t].pc = "caught"
    /\ latch' = count_down(latch)
    /\ task' = [task EXCEPT ![t].pc = "panicked"]
    /\ UNCHANGED <<waiter, waitCount>>

\* JoinHandle::cancel: tokio aborts a task that is not a blocking one
cancel(t) ==
    /\ task[t].pc = "running"
    /\ ~task[t].blocking
    /\ task' = [task EXCEPT ![t].pc = "cancelled"]
    /\ UNCHANGED <<latch, waiter, waitCount>>

\* JoinHandle::poll in task j on the handle of a task that panicked:
\* crate::shutdown() and resume_unwind, so that j panics in turn
JoinPanicked(j, t) ==
    /\ j # t
    /\ task[j].pc = "running"
    /\ task[t].pc = "panicked"
    /\ latch' = count_down(latch)
    /\ task' = [task EXCEPT ![j].pc = "caught"]
    /\ UNCHANGED <<waiter, waitCount>>

\* shutdown() called by the embedding program (a call with the count at 0
\* changes nothing)
shutdown ==
    /\ latch > 0
    /\ latch' = count_down(latch)
    /\ UNCHANGED <<task, waiter, waitCount>>

\* wait_shutdown() is called and its future awaited
wait_shutdown(w) ==
    /\ waiter[w].pc # "waiting"
    /\ \A o \in Waiters : o < w => waiter[o].pc # "none"
    /\ waitCount < MaxWaits
    /\ waitCount' = waitCount + 1
    /\ waiter' = [waiter EXCEPT ![w] =
                      [pc |-> "waiting", afterPanic |-> \E t \in Tasks : Panicked(t)]]
    /\ UNCHANGED <<latch, task>>

\* Latch::wait is ready once the count is 0
WaitReturns(w) ==
    /\ waiter[w].pc = "waiting"
    /\ latch = 0
    /\ waiter' = [waiter EXCEPT ![w].pc = "returned"]
    /\ UNCHANGED <<latch, task, waitCount>>

\* do_initialize_runtimes: Latch::new(1)
InitRuntime ==
    /\ latch = 1
    /\ task = [t \in Tasks |-> NoTask]
    /\ waiter = [w \in Waiters |-> NoWait]
    /\ waitCount = 0

RuntimeStep(A) ==
    A /\ UNCHANGED <<logVars, groupVars, connVars, pubVars, mergeVars, codecVars,
                   encVars, batVars, seqVars, wgVars, bbVars, stVars>>

NextRuntime ==
    \/ \E t \in Tasks, blocking \in BOOLEAN : RuntimeStep(spawn(t, blocking))
    \/ \E t \in Tasks : RuntimeStep(TaskReturns(t))
    \/ \E t \in Tasks : RuntimeStep(TaskPanics(t))
    \/ \E t \in Tasks : RuntimeStep(OnPanic(t))
    \/ \E t \in Tasks : RuntimeStep(cancel(t))
    \/ \E j, t \in Tasks : RuntimeStep(JoinPanicked(j, t))
    \/ RuntimeStep(shutdown)
    \/ \E w \in Waiters : RuntimeStep(wait_shutdown(w))
    \/ \E w \in Waiters : RuntimeStep(WaitReturns(w))

\* a thread that caught a panic runs on to the end of the closure, and the
\* executor polls a wait_shutdown future that the latch woke
FairRuntime ==
    /\ \A t \in Tasks : WF_vars(RuntimeStep(OnPanic(t)))
    /\ \A w \in Waiters : WF_vars(RuntimeStep(WaitReturns(w)))

(***************************************************************************)
(* The unsigned varint codec (VarInt on i32, VarLong on i64).  A machine   *)
(* integer of width w is the set of the positions of its 1 bits, in two's  *)
(* complement: it is negative iff it holds w - 1.                          *)
(***************************************************************************)
I32 == 32

I64 == 64

\* the iterations debug_assert!(i < 5) and debug_assert!(i < 10) allow
MaxVarBytes(w) == IF w = I32 THEN 5 ELSE 10

\* the number a set of bit positions below 8 stands for, and back
ByteOf(S) ==
    LET RECURSIVE Sum(_)
        Sum(b) == IF b > 7 THEN 0 ELSE (IF b \in S THEN 2^b ELSE 0) + Sum(b + 1)
    IN  Sum(0)

BitsOfByte(n) == {b \in 0..7 : (n \div 2^b) % 2 = 1}

\* v >= 0x80 on a signed integer
AtLeast0x80(v, w) == (w - 1) \notin v /\ \E b \in v : b >= 7

\* v >> 7 on a signed integer: arithmetic shift
ShiftRight7(v, w) ==
    {b - 7 : b \in {x \in v : x >= 7}} \cup
    (IF (w - 1) \in v THEN (w - 7)..(w - 1) ELSE {})

\* (next & 0x7F) << s: bits shifted beyond the width are lost; without
\* overflow checks a shift amount of w or more is taken modulo w
ShiftLeft(next, s, w) == {b + (s % w) : b \in BitsOfByte(next % 128)} \cap (0..(w - 1))

\* write_unsigned_varint / write_unsigned_varlong
RECURSIVE write_unsigned_varint(_, _)
write_unsigned_varint(v, w) ==
    IF AtLeast0x80(v, w)
    THEN <<ByteOf(v \cap (0..6)) + 128>> \o write_unsigned_varint(ShiftRight7(v, w), w)
    ELSE <<ByteOf(v \cap (0..7))>>

\* VarInt::calculate_size / VarLong::calculate_size
RECURSIVE calculate_size(_, _)
calculate_size(v, w) ==
    IF AtLeast0x80(v, w) THEN 1 + calculate_size(ShiftRight7(v, w), w) ELSE 1

\* the outcome of a decode: the value and the number of bytes read
ReadOutcome(kind, value, consumed) == [kind |-> kind, value |-> value, consumed |-> consumed]

\* read_unsigned_varint / read_unsigned_varlong from iteration i on: a build
\* with debug assertions panics at the assertion; read_u8 at the end of the
\* buffer is an UnexpectedEof error
RECURSIVE ReadFrom(_, _, _, _, _)
ReadFrom(buf, i, res, w, debug) ==
    IF debug /\ i >= MaxVarBytes(w) THEN ReadOutcome("panic", {}, i)
    ELSE IF i >= Len(buf) THEN ReadOutcome("eof", {}, i)
    ELSE LET next == buf[i + 1]
             acc == res \cup ShiftLeft(next, i * 7, w)
         IN  IF next < 128 THEN ReadOutcome("ok", acc, i + 1)
             ELSE ReadFrom(buf, i + 1, acc, w, debug)

read_unsigned_varint(buf, w, debug) == ReadFrom(buf, 0, {}, w, debug)

\* the integers tried: every run of 1 bits (0, 1, 127, 128, MAX, -1, MIN, ...)
IntSamples(w) == {a..b : a \in 0..(w - 1), b \in 0..(w - 1)}

\* the buffers tried: a terminating byte (0x01) or a continuing one (0x81) at
\* each position
RECURSIVE WireSamples(_)
WireSamples(n) ==
    IF n = 0 THEN {<<>>}
    ELSE WireSamples(n - 1) \cup
         {Append(l, x) : l \in {m \in WireSamples(n - 1) : Len(m) = n - 1}, x \in {1, 129}}

NoOutcome == ReadOutcome("none", {}, 0)

\* Encoder::encode into an empty buffer, and calculate_size
VarEncode ==
    /\ codecPc = "input"
    /\ codecIn.src = "value"
    /\ codecBuf' = write_unsigned_varint(codecIn.value, codecIn.w)
    /\ codecSize' = calculate_size(codecIn.value, codecIn.w)
    /\ codecPc' = "encoded"
    /\ UNCHANGED <<codecIn, codecRes>>

\* Decoder::decode from the buffer
VarDecode ==
    /\ \/ codecPc = "encoded"
       \/ codecPc = "input" /\ codecIn.src = "wire"
    /\ codecRes' = read_unsigned_varint(codecBuf, codecIn.w, codecIn.debug)
    /\ codecPc' = "decoded"
    /\ UNCHANGED <<codecIn, codecBuf, codecSize>>

InitCodec ==
    /\ codecPc = "input"
    /\ codecIn = [src |-> "value", w |-> I32, value |-> {}, debug |-> FALSE]
    /\ codecBuf = <<>>
    /\ codecSize = 0
    /\ codecRes = NoOutcome

\* an integer to encode and decode again, or bytes received to decode, in a
\* build with or without debug assertions
InitCodecInputs ==
    /\ codecPc = "input"
    /\ codecSize = 0
    /\ codecRes = NoOutcome
    /\ \E w \in {I32, I64}, debug \in BOOLEAN :
           \/ /\ codecBuf = <<>>
              /\ \E v \in IntSamples(w) :
                     codecIn = [src |-> "value", w |-> w, value |-> v, debug |-> debug]
           \/ /\ codecBuf \in WireSamples(MaxWire)
              /\ codecIn = [src |-> "wire", w |-> w, value |-> {}, debug |-> debug]

CodecStep(A) ==
    A /\ UNCHANGED <<logVars, groupVars, connVars, pubVars, mergeVars, runVars,
                   encVars, batVars, seqVars, wgVars, bbVars, stVars>>

NextCodec ==
    \/ CodecStep(VarEncode)
    \/ CodecStep(VarDecode)

(***************************************************************************)
(* Response encoding: write and calculate_size of the codecs and of the    *)
(* Fetch and JoinGroup responses, and Response::encode.  A string or byte  *)
(* field is its length (NullLen for None); what a write did is whether it  *)
(* returned Ok and the number of bytes it put into the buffer.             *)
(***************************************************************************)
Int16_SIZE == 2

Int32_SIZE == 4

Int64_SIZE == 8

Bool_SIZE == 1

Uuid_SIZE == 16

\* the length written for a None string, byte buffer or array
NullLen == -1

FETCH_MAX_VERSION == 15

JOIN_GROUP_MAX_VERSION == 9

Written(n) == [ok |-> TRUE, n |-> n]

\* Err(..)? before anything was written
Failed == [ok |-> FALSE, n |-> 0]

\* writes one after the other, each followed by `?`
RECURSIVE Chain(_)
Chain(ws) ==
    IF ws = <<>> THEN Written(0)
    ELSE IF ~ws[1].ok THEN [ok |-> FALSE, n |-> ws[1].n]
    ELSE LET rest == Chain(Tail(ws)) IN [ok |-> rest.ok, n |-> ws[1].n + rest.n]

When(cond, w) == IF cond THEN w ELSE Written(0)

BitsOfNat(n) == {b \in 0..30 : (n \div 2^b) % 2 = 1}

\* VarInt.encode of a length or count
VarInt_encode(n) == Written(Len(write_unsigned_varint(BitsOfNat(n), I32)))

\* VarInt.calculate_size of a length or count
VarInt_calculate_size(n) == calculate_size(BitsOfNat(n), I32)

\* NullableString::encode: write_str
write_str(str, flexible) ==
    IF str = NullLen
    THEN (IF flexible THEN VarInt_encode(0) ELSE Written(Int16_SIZE))
    ELSE Chain(<<IF flexible THEN VarInt_encode(str + 1) ELSE Written(Int16_SIZE),
                 Written(str)>>)

NullableString_calculate_size(value, flexible) ==
    LET len == IF value = NullLen THEN 0 ELSE value
    IN  IF flexible THEN VarInt_calculate_size(len + 1) + len ELSE Int16_SIZE + len

\* NullableBytes::encode: write_bytes
write_bytes(bytes, flexible) ==
    IF bytes = NullLen
    THEN (IF flexible THEN VarInt_encode(0) ELSE Written(Int32_SIZE))
    ELSE Chain(<<IF flexible THEN VarInt_encode(bytes + 1) ELSE Written(Int32_SIZE),
                 Written(bytes)>>)

NullableBytes_calculate_size(value, flexible) ==
    LET len == IF value = NullLen THEN 0 ELSE value
    IN  IF flexible THEN VarInt_calculate_size(len + 1) + len ELSE Int32_SIZE + len

\* Option<Vec<T>>
NoArray == [some |-> FALSE, items |-> <<>>]

SomeArray(items) == [some |-> TRUE, items |-> items]

\* NullableArray::encode, given what the write of each element did
NullableArray_encode(some, writes, flexible) ==
    IF ~some
    THEN (IF flexible THEN VarInt_encode(0) ELSE Written(Int32_SIZE))
    ELSE Chain(<<IF flexible THEN VarInt_encode(Len(writes) + 1) ELSE Written(Int32_SIZE)>>
               \o writes)

\* a None array counted as in a classic version whatever the version
NoneArraySize_AlwaysClassic(flexible) == Int32_SIZE

\* NullableArray::calculate_size of None
NoneArraySize(flexible) == IF flexible THEN VarInt_calculate_size(0) ELSE Int32_SIZE

\* NullableArray::calculate_size, given calculate_size of each element
NullableArray_calculate_size(some, sizes, flexible) ==
    IF ~some THEN NoneArraySize(flexible)
    ELSE (IF flexible THEN VarInt_calculate_size(Len(sizes) + 1) ELSE Int32_SIZE)
         + SumSeq(sizes)

\* RawTaggedFieldList::encode_with without unknown fields: n tagged fields
\* that the closure writes
encode_with(n, f) == Chain(<<VarInt_encode(n), f>>)

\* RawTaggedFieldList::calculate_size_with without unknown fields
calculate_size_with(n, bs) == VarInt_calculate_size(n) + bs

\* RawTaggedFieldWriter::write_field of a value of the given calculate_size
write_field(tag, size, w) == Chain(<<VarInt_encode(tag), VarInt_encode(size), w>>)

\* RawTaggedFieldWriter::calculate_field_size
calculate_field_size(tag, size) ==
    VarInt_calculate_size(tag) + VarInt_calculate_size(size) + size

\* EpochEndOffset and AbortedTransaction: write and calculate_size
EpochEndOffset_write(version) ==
    IF version < 12 THEN Failed
    ELSE Chain(<<Written(Int32_SIZE), Written(Int64_SIZE), encode_with(0, Written(0))>>)

EpochEndOffset_calculate_size(version) ==
    Int32_SIZE + Int64_SIZE + calculate_size_with(0, 0)

AbortedTransaction_write(version) ==
    IF version < 4 THEN Failed
    ELSE Chain(<<Written(Int64_SIZE), Written(Int64_SIZE),
                 When(version >= 12, encode_with(0, Written(0)))>>)

AbortedTransaction_calculate_size(version) ==
    Int64_SIZE + Int64_SIZE + (IF version >= 12 THEN calculate_size_with(0, 0) ELSE 0)

\* PartitionData::write
PartitionData_write(v, version) ==
    LET txns == v.aborted_transactions IN
    Chain(<<Written(Int32_SIZE), Written(Int16_SIZE), Written(Int64_SIZE),
            When(version >= 4, Written(Int64_SIZE)),
            When(version >= 5, Written(Int64_SIZE)),
            When(version >= 4,
                 NullableArray_encode(txns.some,
                     [i \in 1..Len(txns.items) |-> AbortedTransaction_write(version)],
                     version >= 12)),
            When(version >= 11, Written(Int32_SIZE)),
            write_bytes(v.records, version >= 12),
            When(version >= 12,
                 encode_with(IF v.diverging_epoch THEN 1 ELSE 0,
                     When(v.diverging_epoch,
                          write_field(0, EpochEndOffset_calculate_size(version),
                                      EpochEndOffset_write(version)))))>>)

\* PartitionData::calculate_size
PartitionData_calculate_size(v, version) ==
    LET txns == v.aborted_transactions IN
    Int32_SIZE + Int16_SIZE + Int64_SIZE
    + (IF version >= 4 THEN Int64_SIZE ELSE 0)
    + (IF version >= 5 THEN Int64_SIZE ELSE 0)
    + (IF version >= 4
       THEN NullableArray_calculate_size(txns.some,
                [i \in 1..Len(txns.items) |-> AbortedTransaction_calculate_size(version)],
                version >= 12)
       ELSE 0)
    + (IF version >= 11 THEN Int32_SIZE ELSE 0)
    + NullableBytes_calculate_size(v.records, version >= 12)
    + (IF version >= 12
       THEN calculate_size_with(IF v.diverging_epoch THEN 1 ELSE 0,
                IF v.diverging_epoch
                THEN calculate_field_size(0, EpochEndOffset_calculate_size(version))
                ELSE 0)
       ELSE 0)

\* FetchableTopicResponse::write and FetchResponse::write
FetchResponse_write(v, version) ==
    LET topic_write(t) ==
            Chain(<<When(version <= 12, write_str(t.topic, version >= 12)),
                    When(version >= 13, Written(Uuid_SIZE)),
                    NullableArray_encode(TRUE,
                        [i \in 1..Len(t.partitions) |->
                            PartitionData_write(t.partitions[i], version)],
                        version >= 12),
                    When(version >= 12, encode_with(0, Written(0)))>>)
    IN  Chain(<<When(version >= 1, Written(Int32_SIZE)),
                When(version >= 7, Chain(<<Written(Int16_SIZE), Written(Int32_SIZE)>>)),
                NullableArray_encode(TRUE,
                    [i \in 1..Len(v.responses) |-> topic_write(v.responses[i])],
                    version >= 12),
                When(version >= 12, encode_with(0, Written(0)))>>)

\* FetchableTopicResponse::calculate_size and FetchResponse::calculate_size
FetchResponse_calculate_size(v, version) ==
    LET topic_size(t) ==
            (IF version <= 12
             THEN NullableString_calculate_size(t.topic, version >= 12) ELSE 0)
            + (IF version >= 13 THEN Uuid_SIZE ELSE 0)
            + NullableArray_calculate_size(TRUE,
                  [i \in 1..Len(t.partitions) |->
                      PartitionData_calculate_size(t.partitions[i], version)],
                  version >= 12)
            + (IF version >= 12 THEN calculate_size_with(0, 0) ELSE 0)
    IN  (IF version >= 1 THEN Int32_SIZE ELSE 0)
        + (IF version >= 7 THEN Int16_SIZE + Int32_SIZE ELSE 0)
        + NullableArray_calculate_size(TRUE,
              [i \in 1..Len(v.responses) |-> topic_size(v.responses[i])],
              version >= 12)
        + (IF version >= 12 THEN calculate_size_with(0, 0) ELSE 0)

\* JoinGroupResponseMember::write and JoinGroupResponse::write
JoinGroupResponse_write(v, version) ==
    LET member_write(m) ==
            Chain(<<write_str(m.member_id, version >= 6),
                    When(version >= 5, write_str(m.group_instance_id, version >= 6)),
                    write_bytes(m.metadata, version >= 6),
                    When(version >= 6, encode_with(0, Written(0)))>>)
    IN  Chain(<<When(version >= 2, Written(Int32_SIZE)),
                Written(Int16_SIZE),
                Written(Int32_SIZE),
                When(version >= 7, write_str(v.protocol_type, TRUE)),
                IF version < 7 /\ v.protocol_name = NullLen THEN Failed ELSE Written(0),
                write_str(v.protocol_name, version >= 6),
                write_str(v.leader, version >= 6),
                When(version >= 9, Written(Bool_SIZE)),
                write_str(v.member_id, version >= 6),
                NullableArray_encode(TRUE,
                    [i \in 1..Len(v.members) |-> member_write(v.members[i])],
                    version >= 6),
                When(version >= 6, encode_with(0, Written(0)))>>)

\* JoinGroupResponseMember::calculate_size and JoinGroupResponse::calculate_size
JoinGroupResponse_calculate_size(v, version) ==
    LET member_size(m) ==
            NullableString_calculate_size(m.member_id, version >= 6)
            + (IF version >= 5
               THEN NullableString_calculate_size(m.group_instance_id, version >= 6)
               ELSE 0)
            + NullableBytes_calculate_size(m.metadata, version >= 6)
            + (IF version >= 6 THEN calculate_size_with(0, 0) ELSE 0)
    IN  (IF version >= 2 THEN Int32_SIZE ELSE 0)
        + Int16_SIZE
        + Int32_SIZE
        + (IF version >= 7 THEN NullableString_calculate_size(v.protocol_type, TRUE) ELSE 0)
        + NullableString_calculate_size(v.protocol_name, version >= 6)
        + NullableString_calculate_size(v.leader, version >= 6)
        + (IF version >= 9 THEN Bool_SIZE ELSE 0)
        + NullableString_calculate_size(v.member_id, version >= 6)
        + NullableArray_calculate_size(TRUE,
              [i \in 1..Len(v.members) |-> member_size(v.members[i])],
              version >= 6)
        + (IF version >= 6 THEN calculate_size_with(0, 0) ELSE 0)

\* ResponseHeader::write and ResponseHeader::calculate_size
ResponseHeader_write(version) ==
    Chain(<<Written(Int32_SIZE), When(version >= 1, encode_with(0, Written(0)))>>)

ResponseHeader_calculate_size(version) ==
    Int32_SIZE + (IF version >= 1 THEN calculate_size_with(0, 0) ELSE 0)

\* ApiMessageType::response_header_version
response_header_version(api, api_version) ==
    IF (api = "fetch" /\ api_version >= 12) \/ (api = "join_group" /\ api_version >= 6)
    THEN 1 ELSE 0

\* Response::do_encode and Response::calculate_size
do_encode(v, version) ==
    IF v.api = "fetch" THEN FetchResponse_write(v, version)
    ELSE JoinGroupResponse_write(v, version)

Response_calculate_size(v, version) ==
    IF v.api = "fetch" THEN FetchResponse_calculate_size(v, version)
    ELSE JoinGroupResponse_calculate_size(v, version)

\* Response::encode into an empty buffer: the size prefix, the header, the
\* body.  prefix is the value of the i32 written first, n the bytes in the
\* buffer when encode returns
Response_encode(v, version) ==
    LET header_version == response_header_version(v.api, version)
        size == Response_calculate_size(v, version)
                + ResponseHeader_calculate_size(header_version)
        done == Chain(<<Written(Int32_SIZE), ResponseHeader_write(header_version),
                        do_encode(v, version)>>)
    IN  [ok |-> done.ok, n |-> done.n, prefix |-> size,
         body |-> do_encode(v, version),
         body_size |-> Response_calculate_size(v, version)]

\* the responses tried
StringSamples == {0, 127}

OptionSamples == {NullLen, 5}

PartitionDataSamples ==
    [aborted_transactions : {NoArray, SomeArray(<<>>), SomeArray(<<"txn">>)},
     records : {0, 61},
     diverging_epoch : BOOLEAN]

RECURSIVE ListsOf(_, _)
ListsOf(S, n) ==
    IF n = 0 THEN {<<>>}
    ELSE ListsOf(S, n - 1) \cup
         {Append(l, x) : l \in {m \in ListsOf(S, n - 1) : Len(m) = n - 1}, x \in S}

FetchResponseSamples ==
    [api : {"fetch"},
     responses : ListsOf([topic : StringSamples,
                          partitions : ListsOf(PartitionDataSamples, MaxEntries)], 1)]

JoinGroupResponseSamples ==
    [api : {"join_group"},
     protocol_type : OptionSamples,
     protocol_name : OptionSamples,
     leader : StringSamples,
     member_id : {5},
     members : ListsOf([member_id : {5}, group_instance_id : OptionSamples,
                        metadata : {0, 127}], MaxEntries)]

NoEncoded == [ok |-> TRUE, n |-> 0, prefix |-> 0, body |-> Written(0), body_size |-> 0]

\* process_packet_one: response.encode(header, &mut buf)
EncodeCall ==
    /\ encPc = "input"
    /\ encOut' = Response_encode(encIn.value, encIn.version)
    /\ encPc' = "encoded"
    /\ UNCHANGED encIn

InitEncode ==
    /\ encPc = "input"
    /\ encIn = [value |-> [api |-> "fetch", responses |-> <<>>], version |-> 0]
    /\ encOut = NoEncoded

\* a response and the version of the request it answers
InitEncodeInputs ==
    /\ encPc = "input"
    /\ encOut = NoEncoded
    /\ \/ \E v \in FetchResponseSamples, version \in 0..FETCH_MAX_VERSION :
              encIn = [value |-> v, version |-> version]
       \/ \E v \in JoinGroupResponseSamples, version \in 0..JOIN_GROUP_MAX_VERSION :
              encIn = [value |-> v, version |-> version]

EncodeStep(A) ==
    A /\ UNCHANGED <<logVars, groupVars, connVars, pubVars, mergeVars, runVars, codecVars,
                     batVars, seqVars, wgVars, bbVars, stVars>>

NextEncode == EncodeStep(EncodeCall)

(***************************************************************************)
(* Record batches: RecordBatches::batches / mut_batches cut the buffer     *)
(* into batch windows, RecordBatchView reads fixed fields of a window and  *)
(* MutableRecordBatch rewrites two of them.  The buffer is its bytes.      *)
(***************************************************************************)
BASE_OFFSET_OFFSET == 0

BASE_OFFSET_LENGTH == 8

LENGTH_OFFSET == 8

LENGTH_LENGTH == 4

PARTITION_LEADER_EPOCH_OFFSET == 12

PARTITION_LEADER_EPOCH_LENGTH == 4

MAGIC_OFFSET == 16

CRC_OFFSET == 17

LAST_OFFSET_DELTA_OFFSET == 23

BASE_SEQUENCE_OFFSET == 53

RECORDS_COUNT_OFFSET == 57

RECORD_BATCH_OVERHEAD == 61

LOG_OVERHEAD == 12

\* the only magic check_and_fetch_batch_size lets through
MAGIC_VALUE_V2 == 2

\* big-endian integers: read_i32::<BigEndian> and the like
RECURSIVE Unsigned(_)
Unsigned(bs) ==
    IF bs = <<>> THEN 0
    ELSE Unsigned(SubSeq(bs, 1, Len(bs) - 1)) * 256 + bs[Len(bs)]

Complement(bs) == [i \in 1..Len(bs) |-> 255 - bs[i]]

FromBE(bs, signed) ==
    IF signed /\ bs[1] >= 128 THEN (0 - Unsigned(Complement(bs))) - 1 ELSE Unsigned(bs)

RECURSIVE UnsignedBE(_, _)
UnsignedBE(x, n) ==
    IF n = 0 THEN <<>> ELSE Append(UnsignedBE(x \div 256, n - 1), x % 256)

\* write_i32::<BigEndian> and write_i64::<BigEndian>: the n bytes of x
ToBE(x, n) == IF x >= 0 THEN UnsignedBE(x, n) ELSE Complement(UnsignedBE((0 - x) - 1, n))

\* record_size as usize + LOG_OVERHEAD on a 64-bit usize: a negative
\* record_size becomes 2^64 + record_size, and the sum is either beyond
\* every slice length or overflows; the overflow panics in a build with
\* overflow checks and wraps in a build without
BatchSizeOf(record_size, debug) ==
    IF record_size >= 0
    THEN [kind |-> "ok", beyond |-> FALSE, n |-> record_size + LOG_OVERHEAD]
    ELSE IF record_size + LOG_OVERHEAD < 0
    THEN [kind |-> "ok", beyond |-> TRUE, n |-> 0]
    ELSE IF debug THEN [kind |-> "panic", beyond |-> FALSE, n |-> 0]
    ELSE [kind |-> "ok", beyond |-> FALSE, n |-> record_size + LOG_OVERHEAD]

BatchErr == [kind |-> "err", size |-> 0]

\* check_and_fetch_batch_size(bytes, remaining)
check_and_fetch_batch_size(bytes, remaining, debug) ==
    IF remaining < RECORD_BATCH_OVERHEAD THEN BatchErr
    ELSE LET record_size == FromBE(SubSeq(bytes, LENGTH_OFFSET + 1,
                                          LENGTH_OFFSET + LENGTH_LENGTH), TRUE)
             batch_size == BatchSizeOf(record_size, debug)
             magic == FromBE(<<bytes[MAGIC_OFFSET + 1]>>, TRUE)
         IN  IF batch_size.kind = "panic" THEN [kind |-> "panic", size |-> 0]
             ELSE IF batch_size.beyond \/ remaining < batch_size.n THEN BatchErr
             ELSE IF magic /= MAGIC_VALUE_V2 THEN BatchErr
             ELSE [kind |-> "ok", size |-> batch_size.n]

\* the loop of batches / mut_batches from byte `start` on: the windows cut
\* so far are acc.  A batch_size of 0 leaves remaining as it is: the loop
\* pushes windows until the memory is used up
RECURSIVE SplitFrom(_, _, _, _)
SplitFrom(buf, start, acc, debug) ==
    LET remaining == Len(buf) - start IN
    IF remaining = 0 THEN [kind |-> "ok", windows |-> acc]
    ELSE LET r == check_and_fetch_batch_size(SubSeq(buf, start + 1, Len(buf)),
                                             remaining, debug)
         IN  IF r.kind /= "ok" THEN [kind |-> r.kind, windows |-> <<>>]
             ELSE IF r.size = 0 THEN [kind |-> "diverges", windows |-> <<>>]
             ELSE SplitFrom(buf, start + r.size,
                            Append(acc, [start |-> start, size |-> r.size]), debug)

\* RecordBatches::batches and RecordBatches::mut_batches
batches(buf, debug) == SplitFrom(buf, 0, <<>>, debug)

\* the bytes of a window: RecordBatch.bytes, MutableRecordBatch.bytes
WindowBytes(buf, w) == SubSeq(buf, w.start + 1, w.start + w.size)

\* (&self.bytes[at..]).read_xx::<BigEndian>().expect(..): the slice panics
\* when at is beyond the window, the expect when fewer than n bytes follow
view_read(bytes, at, n, signed) ==
    IF at > Len(bytes) \/ Len(bytes) - at < n THEN [kind |-> "panic", value |-> 0]
    ELSE [kind |-> "ok", value |-> FromBE(SubSeq(bytes, at + 1, at + n), signed)]

\* (&mut self.bytes[at..]).write_xx::<BigEndian>(x).expect(..): write_all
\* copies the bytes that fit before it fails
view_write(bytes, at, x, n) ==
    IF at > Len(bytes) THEN [kind |-> "panic", bytes |-> bytes]
    ELSE [kind |-> IF Len(bytes) - at < n THEN "panic" ELSE "ok",
          bytes |-> [i \in 1..Len(bytes) |->
                        IF i > at /\ i <= at + n THEN ToBE(x, n)[i - at] ELSE bytes[i]]]

\* RecordBatchView::last_offset_delta
last_offset_delta(bytes) == view_read(bytes, LAST_OFFSET_DELTA_OFFSET, 4, TRUE)

\* RecordBatchView::last_offset
last_offset(bytes) ==
    LET base == view_read(bytes, BASE_OFFSET_OFFSET, BASE_OFFSET_LENGTH, TRUE)
        delta == last_offset_delta(bytes)
    IN  IF base.kind = "panic" \/ delta.kind = "panic" THEN [kind |-> "panic", value |-> 0]
        ELSE [kind |-> "ok", value |-> base.value + delta.value]

\* MutableRecordBatch::set_last_offset
set_last_offset(bytes, offset) ==
    LET delta == last_offset_delta(bytes) IN
    IF delta.kind = "panic" THEN [kind |-> "panic", bytes |-> bytes]
    ELSE view_write(bytes, BASE_OFFSET_OFFSET, offset - delta.value, BASE_OFFSET_LENGTH)

\* MutableRecordBatch::set_partition_leader_epoch
set_partition_leader_epoch(bytes, epoch) ==
    view_write(bytes, PARTITION_LEADER_EPOCH_OFFSET, epoch, PARTITION_LEADER_EPOCH_LENGTH)

\* the fixed fields read through a view: offset, length, signed
ViewFields ==
    { [name |-> "magic", at |-> MAGIC_OFFSET, n |-> 1, signed |-> TRUE],
      [name |-> "checksum", at |-> CRC_OFFSET, n |-> 4, signed |-> FALSE],
      [name |-> "base_sequence", at |-> BASE_SEQUENCE_OFFSET, n |-> 4, signed |-> TRUE],
      [name |-> "records_count", at |-> RECORDS_COUNT_OFFSET, n |-> 4, signed |-> TRUE] }

\* a byte string laid out as a batch header with the given length field,
\* magic and last offset delta, cut or filled up to total bytes
Chunk(length, magic, delta, total) ==
    [i \in 1..total |->
        IF i > LENGTH_OFFSET /\ i <= LENGTH_OFFSET + LENGTH_LENGTH
            THEN ToBE(length, LENGTH_LENGTH)[i - LENGTH_OFFSET]
        ELSE IF i = MAGIC_OFFSET + 1 THEN magic
        ELSE IF i > CRC_OFFSET /\ i <= CRC_OFFSET + 4 THEN 7
        ELSE IF i > LAST_OFFSET_DELTA_OFFSET /\ i <= LAST_OFFSET_DELTA_OFFSET + 4
            THEN ToBE(delta, 4)[i - LAST_OFFSET_DELTA_OFFSET]
        ELSE IF i = RECORDS_COUNT_OFFSET + 4 THEN 1
        ELSE IF i > RECORD_BATCH_OVERHEAD THEN 9
        ELSE 0]

ChunkSamples ==
    { Chunk(49, 2, 0, 61), Chunk(52, 2, 2, 64), Chunk(10, 2, 0, 22), Chunk(18, 2, 1, 30),
      Chunk(49, 1, 0, 61), Chunk(60, 2, 0, 61), Chunk(0 - 12, 2, 0, 61),
      Chunk(0 - 5, 2, 0, 61), Chunk(0 - 100, 2, 0, 61) }

RECURSIVE Concat(_)
Concat(chunks) == IF chunks = <<>> THEN <<>> ELSE Head(chunks) \o Concat(Tail(chunks))

BufferSamples == {Concat(l) : l \in ListsOf(ChunkSamples, MaxChunks)}

OffsetSamples == {0, 5}

EpochSamples == {3}

NoBatchOp ==
    [op |-> "none", window |-> 0, arg |-> 0, kind |-> "ok", value |-> 0, before |-> <<>>]

AfterBatches(out) ==
    CASE out.kind = "ok" -> "split"
      [] out.kind = "err" -> "failed"
      [] out.kind = "panic" -> "panicked"
      [] OTHER -> "diverged"

\* record_batches.batches() (receive_produce)
BatchesCall ==
    /\ batPc = "input"
    /\ batOut' = batches(batBuf, batDebug)
    /\ batMutable' = FALSE
    /\ batPc' = AfterBatches(batOut')
    /\ UNCHANGED <<batBuf, batDebug, batOp>>

\* record_batches.mut_batches() (receive_fetch)
MutBatchesCall ==
    /\ batPc = "input"
    /\ batOut' = batches(batBuf, batDebug)
    /\ batMutable' = TRUE
    /\ batPc' = AfterBatches(batOut')
    /\ UNCHANGED <<batBuf, batDebug, batOp>>

\* batch.view().records_count() and the other accessors of a fixed field
ViewReadCall(i, f) ==
    /\ batPc = "split"
    /\ LET r == view_read(WindowBytes(batBuf, batOut.windows[i]), f.at, f.n, f.signed) IN
       /\ batOp' = [op |-> f.name, window |-> i, arg |-> 0, kind |-> r.kind,
                    value |-> r.value, before |-> batBuf]
       /\ batPc' = IF r.kind = "panic" THEN "panicked" ELSE "split"
    /\ UNCHANGED <<batBuf, batDebug, batOut, batMutable>>

\* the buffer with the bytes of window w replaced
Spliced(buf, w, bytes) ==
    [i \in 1..Len(buf) |->
        IF i > w.start /\ i <= w.start + w.size THEN bytes[i - w.start] ELSE buf[i]]

\* batch.set_last_offset(offset)
SetLastOffsetCall(i, offset) ==
    /\ batPc = "split"
    /\ batMutable
    /\ LET w == batOut.windows[i]
           r == set_last_offset(WindowBytes(batBuf, w), offset)
       IN  /\ batBuf' = Spliced(batBuf, w, r.bytes)
           /\ batOp' = [op |-> "set_last_offset", window |-> i, arg |-> offset,
                        kind |-> r.kind, value |-> 0, before |-> batBuf]
           /\ batPc' = IF r.kind = "panic" THEN "panicked" ELSE "split"
    /\ UNCHANGED <<batDebug, batOut, batMutable>>

\* batch.set_partition_leader_epoch(epoch)
SetPartitionLeaderEpochCall(i, epoch) ==
    /\ batPc = "split"
    /\ batMutable
    /\ LET w == batOut.windows[i]
           r == set_partition_leader_epoch(WindowBytes(batBuf, w), epoch)
       IN  /\ batBuf' = Spliced(batBuf, w, r.bytes)
           /\ batOp' = [op |-> "set_partition_leader_epoch", window |-> i, arg |-> epoch,
                        kind |-> r.kind, value |-> 0, before |-> batBuf]
           /\ batPc' = IF r.kind = "panic" THEN "panicked" ELSE "split"
    /\ UNCHANGED <<batDebug, batOut, batMutable>>

InitBatch ==
    /\ batPc = "input"
    /\ batBuf = <<>>
    /\ batDebug = FALSE
    /\ batOut = [kind |-> "ok", windows |-> <<>>]
    /\ batMutable = FALSE
    /\ batOp = NoBatchOp

\* a buffer of bytes and a build with or without overflow checks
InitBatchInputs ==
    /\ batPc = "input"
    /\ batBuf \in BufferSamples
    /\ batDebug \in BOOLEAN
    /\ batOut = [kind |-> "ok", windows |-> <<>>]
    /\ batMutable = FALSE
    /\ batOp = NoBatchOp

BatchStep(A) ==
    A /\ UNCHANGED <<logVars, groupVars, connVars, pubVars, mergeVars, runVars, codecVars,
                     encVars, seqVars, wgVars, bbVars, stVars>>

NextBatch ==
    \/ BatchStep(BatchesCall)
    \/ BatchStep(MutBatchesCall)
    \/ \E i \in 1..Len(batOut.windows), f \in ViewFields : BatchStep(ViewReadCall(i, f))
    \/ \E i \in 1..Len(batOut.windows), offset \in OffsetSamples :
           BatchStep(SetLastOffsetCall(i, offset))
    \/ \E i \in 1..Len(batOut.windows), epoch \in EpochSamples :
           BatchStep(SetPartitionLeaderEpochCall(i, epoch))

(***************************************************************************)
(* Producer sequences: increment_sequence and decrement_sequence on i32.   *)
(* A result is the value the 32-bit operation leaves and whether it        *)
(* overflowed: an overflow panics in a build with overflow checks and      *)
(* wraps in a build without.                                               *)
(***************************************************************************)
I32_MAX == 2147483647

I32_MIN == (0 - I32_MAX) - 1

\* a - b on i32
SubI32(a, b) ==
    IF b > 0 /\ a < I32_MIN + b
    THEN [of |-> TRUE, v |-> (((a - I32_MIN) - b) + I32_MAX) + 1]
    ELSE IF b < 0 /\ a > I32_MAX + b
    THEN [of |-> TRUE, v |-> (((a - I32_MAX) - 1) - b) + I32_MIN]
    ELSE [of |-> FALSE, v |-> a - b]

\* a + b on i32
AddI32(a, b) ==
    IF b > 0 /\ a > I32_MAX - b
    THEN [of |-> TRUE, v |-> ((a - (I32_MAX - b)) - 1) + I32_MIN]
    ELSE IF b < 0 /\ a < I32_MIN - b
    THEN [of |-> TRUE, v |-> ((a - (I32_MIN - b)) + I32_MAX) + 1]
    ELSE [of |-> FALSE, v |-> a + b]

\* i32::wrapping_add, which wraps to i32::MIN
increment_sequence_WrappingAdd(sequence, increment) ==
    [of |-> FALSE, v |-> AddI32(sequence, increment).v]

\* increment_sequence(sequence, increment)
increment_sequence(sequence, increment) ==
    LET room == SubI32(I32_MAX, increment) IN
    IF sequence > room.v
    THEN LET gap == SubI32(I32_MAX, sequence)
             over == SubI32(increment, gap.v)
             res == SubI32(over.v, 1)
         IN  [of |-> room.of \/ gap.of \/ over.of \/ res.of, v |-> res.v]
    ELSE LET res == AddI32(sequence, increment)
         IN  [of |-> room.of \/ res.of, v |-> res.v]

\* decrement_sequence(sequence, decrement)
decrement_sequence(sequence, decrement) ==
    IF sequence < decrement
    THEN LET gap == SubI32(decrement, sequence)
             under == SubI32(I32_MAX, gap.v)
             res == AddI32(under.v, 1)
         IN  [of |-> gap.of \/ under.of \/ res.of, v |-> res.v]
    ELSE SubI32(sequence, decrement)

\* sequences and increments at both ends and in the middle of 0..=i32::MAX
SequenceSamples ==
    (0..MaxSeqEdge) \cup {I32_MAX - k : k \in 0..MaxSeqEdge} \cup {I32_MAX \div 2}

NoSequence == [of |-> FALSE, v |-> 0]

\* last_sequence: increment_sequence(seq, self.last_offset_delta())
IncrementCall ==
    /\ seqPc = "input"
    /\ seqInc' = increment_sequence(seqIn.sequence, seqIn.increment)
    /\ seqPc' = "incremented"
    /\ UNCHANGED <<seqIn, seqDec>>

\* decrement_sequence of the incremented sequence by the same amount
DecrementCall ==
    /\ seqPc = "incremented"
    /\ ~seqInc.of
    /\ seqDec' = decrement_sequence(seqInc.v, seqIn.increment)
    /\ seqPc' = "decremented"
    /\ UNCHANGED <<seqIn, seqInc>>

InitSequence ==
    /\ seqPc = "input"
    /\ seqIn = [sequence |-> 0, increment |-> 0]
    /\ seqInc = NoSequence
    /\ seqDec = NoSequence

InitSequenceInputs ==
    /\ seqPc = "input"
    /\ seqIn \in [sequence : SequenceSamples, increment : SequenceSamples]
    /\ seqInc = NoSequence
    /\ seqDec = NoSequence

SequenceStep(A) ==
    A /\ UNCHANGED <<logVars, groupVars, connVars, pubVars, mergeVars, runVars, codecVars,
                     encVars, batVars, wgVars, bbVars, stVars>>

NextSequence ==
    \/ SequenceStep(IncrementCall)
    \/ SequenceStep(DecrementCall)

(***************************************************************************)
(* WaitGroup: the clones share an Arc<Inner>; the future holds a Weak and  *)
(* takes a strong reference for the time of a poll.  Inner is dropped, and *)
(* its waker woken, when the last strong reference goes.                   *)
(***************************************************************************)
Workers == 1..MaxWorkers

\* Arc::strong_count of Inner
strong_count ==
    (IF wgMain THEN 1 ELSE 0) + Cardinality(wgClones)
    + (IF wgPc \in {"upgraded", "registered"} THEN 1 ELSE 0)

\* Inner dropped without waking its waker
DropInner_NoWake(waker, woken) == [waker |-> waker, woken |-> woken]

\* Drop for Inner: self.waker.wake() takes the registered waker, if any,
\* and wakes the task
DropInner(waker, woken) == [waker |-> FALSE, woken |-> woken \/ waker]

\* a strong reference is dropped; the last one drops Inner
DropStrong ==
    LET after == IF strong_count = 1 THEN DropInner(wgWaker, wgWoken)
                 ELSE [waker |-> wgWaker, woken |-> wgWoken]
    IN  /\ wgWaker' = after.waker
        /\ wgWoken' = after.woken

\* wg.clone() or w.clone(): a worker is given a clone of a live handle
WgClone(w) ==
    /\ w \notin wgSpawned
    /\ wgMain \/ wgClones /= {}
    /\ wgSpawned' = wgSpawned \cup {w}
    /\ wgClones' = wgClones \cup {w}
    /\ UNCHANGED <<wgMain, wgPc, wgWaker, wgWoken, wgLastDropAt>>

\* drop(w) in a worker
WorkerDrop(w) ==
    /\ w \in wgClones
    /\ wgClones' = wgClones \ {w}
    /\ DropStrong
    /\ wgLastDropAt' = IF wgClones = {w} THEN wgPc ELSE wgLastDropAt
    /\ UNCHANGED <<wgMain, wgSpawned, wgPc>>

\* wg.await: into_future downgrades and drops the WaitGroup; the awaiting
\* task goes on to poll the future
into_future ==
    /\ wgMain
    /\ wgMain' = FALSE
    /\ wgPc' = "idle"
    /\ LET after == IF strong_count = 1 THEN DropInner(wgWaker, wgWoken)
                    ELSE [waker |-> wgWaker, woken |-> wgWoken]
       IN  /\ wgWaker' = after.waker
           /\ wgWoken' = TRUE
    /\ UNCHANGED <<wgSpawned, wgClones, wgLastDropAt>>

\* WaitGroupFuture::poll: self.inner.upgrade().  The task is polled because
\* it was woken, or for another reason (a select! whose other branch woke)
PollUpgrade ==
    /\ wgPc = "idle"
    /\ wgWoken' = FALSE
    /\ wgPc' = IF strong_count > 0 THEN "upgraded" ELSE "ready"
    /\ UNCHANGED <<wgMain, wgSpawned, wgClones, wgWaker, wgLastDropAt>>

\* poll of a task that was woken
PollWoken == wgWoken /\ PollUpgrade

\* poll of a task that was not woken
PollSpurious == ~wgWoken /\ PollUpgrade

\* WaitGroupFuture::poll: inner.waker.register(cx.waker())
PollRegister ==
    /\ wgPc = "upgraded"
    /\ wgWaker' = TRUE
    /\ wgPc' = "registered"
    /\ UNCHANGED <<wgMain, wgSpawned, wgClones, wgWoken, wgLastDropAt>>

\* WaitGroupFuture::poll: Poll::Pending, the upgraded Arc goes out of scope
PollPending ==
    /\ wgPc = "registered"
    /\ wgPc' = "idle"
    /\ DropStrong
    /\ UNCHANGED <<wgMain, wgSpawned, wgClones, wgLastDropAt>>

\* WaitGroup::new
InitWaitGroup ==
    /\ wgMain = TRUE
    /\ wgSpawned = {}
    /\ wgClones = {}
    /\ wgPc = "none"
    /\ wgWaker = FALSE
    /\ wgWoken = FALSE
    /\ wgLastDropAt = "none"

WaitGroupStep(A) ==
    A /\ UNCHANGED <<logVars, groupVars, connVars, pubVars, mergeVars, runVars, codecVars,
                     encVars, batVars, seqVars, bbVars, stVars>>

NextWaitGroup ==
    \/ \E w \in Workers : WaitGroupStep(WgClone(w))
    \/ \E w \in Workers : WaitGroupStep(WorkerDrop(w))
    \/ WaitGroupStep(into_future)
    \/ WaitGroupStep(PollWoken)
    \/ WaitGroupStep(PollSpurious)
    \/ WaitGroupStep(PollRegister)
    \/ WaitGroupStep(PollPending)

\* the executor polls a task that was woken, and a poll runs to its end;
\* nothing makes a worker drop its clone
FairWaitGroup ==
    /\ WF_vars(WaitGroupStep(PollWoken))
    /\ WF_vars(WaitGroupStep(PollRegister))
    /\ WF_vars(WaitGroupStep(PollPending))

(***************************************************************************)
(* BufferByUnordered: a stream of (future, size) pairs whose futures run   *)
(* concurrently within a size budget.  A usize is written as the i64 with  *)
(* the same bits, so that usize::MAX is -1 and wrapping arithmetic is the  *)
(* arithmetic of the model on the values near 0 and near 2^64.             *)
(***************************************************************************)
USIZE_MAX == -1

\* a <= b on usize
ULeq(a, b) ==
    IF (a < 0) = (b < 0) THEN a <= b ELSE b < 0

\* a + b on usize leaves the range
UAddOverflows(a, b) ==
    \/ a < 0 /\ b < 0
    \/ a < 0 /\ b >= 0 /\ a + b >= 0
    \/ a >= 0 /\ b < 0 /\ a + b >= 0

\* sizes of the futures of a stream
SizeSamples == 0..(MaxSize + 1) \cup {USIZE_MAX}

\* *this.total_size == 0 || *this.total_size + fut.size <= *this.max_size
Admits(total_size, size, max_size) ==
    total_size = 0 \/ ULeq(total_size + size, max_size)

\* the while loop over pending_queue.pop(): the last pair pushed is tried
\* first, and the first pair that does not fit is pushed back; the sum of
\* the test panics in a build with overflow checks when it leaves the range
RECURSIVE Spawn(_, _, _, _, _)
Spawn(pending, in_progress, total_size, sizes, b) ==
    IF pending = <<>>
    THEN [panic |-> FALSE, pending |-> pending, in_progress |-> in_progress,
          total_size |-> total_size]
    ELSE LET fut == pending[Len(pending)]
             size == sizes[fut]
         IN  IF total_size /= 0 /\ UAddOverflows(total_size, size) /\ b.debug
             THEN [panic |-> TRUE, pending |-> pending, in_progress |-> in_progress,
                   total_size |-> total_size]
             ELSE IF Admits(total_size, size, b.max_size)
             THEN Spawn(SubSeq(pending, 1, Len(pending) - 1), in_progress \cup {fut},
                        total_size + size, sizes, b)
             ELSE [panic |-> FALSE, pending |-> pending, in_progress |-> in_progress,
                   total_size |-> total_size]

\* the first loop of poll_next: the input stream hands over k more pairs and
\* then is pending or, when `none`, returns None; a Fuse that is done is
\* not polled again
Collected(k) == bbPending \o [i \in 1..k |-> bbTaken + i]

\* poll_next up to the poll of in_progress_queue
Spawned(k) ==
    Spawn(Collected(k), bbInProgress, bbTotal, bbStream, [debug |-> bbDebug, max_size |-> bbMax])

\* what the input stream can do in one poll_next
StreamPolls(k, none) ==
    /\ bbPc = "open"
    /\ k \in 0..(Len(bbStream) - bbTaken)
    /\ bbDone => k = 0 /\ none
    /\ none => bbTaken + k = Len(bbStream)
    /\ bbTaken' = bbTaken + k
    /\ bbDone' = none

\* an addition of poll_next overflows in a build that checks it
PollPanics(k, none) ==
    /\ StreamPolls(k, none)
    /\ Spawned(k).panic
    /\ bbPc' = "panicked"
    /\ UNCHANGED <<bbStream, bbPending, bbInProgress, bbTotal, bbMax, bbDebug, bbYielded>>

\* in_progress_queue.poll_next_unpin returns the output of a future
PollYields(k, none, fut) ==
    /\ StreamPolls(k, none)
    /\ ~Spawned(k).panic
    /\ fut \in Spawned(k).in_progress
    /\ bbPending' = Spawned(k).pending
    /\ bbInProgress' = Spawned(k).in_progress \ {fut}
    /\ bbTotal' = Spawned(k).total_size - bbStream[fut]
    /\ bbYielded' = Append(bbYielded, fut)
    /\ UNCHANGED <<bbStream, bbMax, bbDebug, bbPc>>

\* no future in progress is ready: Poll::Pending
PollInProgressPending(k, none) ==
    /\ StreamPolls(k, none)
    /\ ~Spawned(k).panic
    /\ Spawned(k).in_progress /= {}
    /\ bbPending' = Spawned(k).pending
    /\ bbInProgress' = Spawned(k).in_progress
    /\ bbTotal' = Spawned(k).total_size
    /\ UNCHANGED <<bbStream, bbMax, bbDebug, bbYielded, bbPc>>

\* FuturesUnordered is empty and returns None, and so does poll_next
PollEnds(k, none) ==
    /\ StreamPolls(k, none)
    /\ ~Spawned(k).panic
    /\ Spawned(k).in_progress = {}
    /\ bbPending' = Spawned(k).pending
    /\ bbInProgress' = {}
    /\ bbTotal' = Spawned(k).total_size
    /\ bbPc' = "ended"
    /\ UNCHANGED <<bbStream, bbMax, bbDebug, bbYielded>>

InitBuffer ==
    /\ bbStream = <<>>
    /\ bbTaken = 0
    /\ bbDone = FALSE
    /\ bbPending = <<>>
    /\ bbInProgress = {}
    /\ bbTotal = 0
    /\ bbMax = 0
    /\ bbDebug = FALSE
    /\ bbYielded = <<>>
    /\ bbPc = "open"

\* stream.buffer_by_unordered(max_size) on every sample stream
InitBufferInputs ==
    /\ bbStream \in UNION {[1..n -> SizeSamples] : n \in 0..MaxItems}
    /\ bbTaken = 0
    /\ bbDone = FALSE
    /\ bbPending = <<>>
    /\ bbInProgress = {}
    /\ bbTotal = 0
    /\ bbMax \in 0..MaxSize
    /\ bbDebug \in BOOLEAN
    /\ bbYielded = <<>>
    /\ bbPc = "open"

BufferStep(A) ==
    A /\ UNCHANGED <<logVars, groupVars, connVars, pubVars, mergeVars, runVars, codecVars,
                     encVars, batVars, seqVars, wgVars, stVars>>

NextBuffer ==
    \/ \E k \in 0..MaxItems, none \in BOOLEAN : BufferStep(PollPanics(k, none))
    \/ \E k \in 0..MaxItems, none \in BOOLEAN, fut \in 1..MaxItems :
           BufferStep(PollYields(k, none, fut))
    \/ \E k \in 0..MaxItems, none \in BOOLEAN : BufferStep(PollInProgressPending(k, none))
    \/ \E k \in 0..MaxItems, none \in BOOLEAN : BufferStep(PollEnds(k, none))

(***************************************************************************)
(* schedule_with_fixed_delay: a task spawned on a multi-threaded runtime   *)
(* that calls task_fn in a loop.  cancel is JoinHandle::abort, which marks *)
(* the task and returns: a future that a worker is polling runs on to the  *)
(* await at which it next returns Pending, and is dropped there.           *)
(***************************************************************************)
StLive == stPc \in {"initial_delay", "call", "in_call", "delay"}

\* a worker takes the woken task and polls its future; a task marked by
\* abort is not polled again
PollStart ==
    /\ StLive /\ stWoken /\ ~stPolling
    /\ stCancels = 0
    /\ stPolling' = TRUE
    /\ stWoken' = FALSE
    /\ UNCHANGED <<stPc, stElapsed, stCalls, stInCall, stCancels, stLateCalls, stAwait>>

\* tokio::time::sleep(..).await before its deadline: Poll::Pending
SleepPending ==
    /\ stPolling /\ stPc \in {"initial_delay", "delay"}
    /\ ~stElapsed
    /\ stPolling' = FALSE
    /\ UNCHANGED <<stPc, stWoken, stElapsed, stCalls, stInCall, stCancels, stLateCalls, stAwait>>

\* the deadline of the sleep passes: the timer wakes the task
TimerFires ==
    /\ stPc \in {"initial_delay", "delay"}
    /\ ~stElapsed
    /\ stElapsed' = TRUE
    /\ stWoken' = TRUE
    /\ UNCHANGED <<stPc, stPolling, stCalls, stInCall, stCancels, stLateCalls, stAwait>>

\* the sleep is over: the loop goes on to task_fn.call()
SleepReady ==
    /\ stPolling /\ stPc \in {"initial_delay", "delay"}
    /\ stElapsed
    /\ stPc' = "call"
    /\ stElapsed' = FALSE
    /\ UNCHANGED <<stPolling, stWoken, stCalls, stInCall, stCancels, stLateCalls, stAwait>>

\* task_fn.call() is entered
CallStart ==
    /\ stPolling /\ stPc = "call"
    /\ stCalls < MaxCalls
    /\ stPc' = "in_call"
    /\ stCalls' = stCalls + 1
    /\ stInCall' = stInCall + 1
    /\ stLateCalls' = stLateCalls + (IF stCancels > 0 THEN 1 ELSE 0)
    /\ UNCHANGED <<stPolling, stWoken, stElapsed, stCancels, stAwait>>

\* the future of task_fn.call() is pending
CallPending ==
    /\ stPolling /\ stPc = "in_call"
    /\ stPolling' = FALSE
    /\ UNCHANGED <<stPc, stWoken, stElapsed, stCalls, stInCall, stCancels, stLateCalls, stAwait>>

\* what the future of task_fn.call() waits for is ready
CallWakes ==
    /\ ~stPolling /\ stPc = "in_call" /\ ~stWoken
    /\ stWoken' = TRUE
    /\ UNCHANGED <<stPc, stPolling, stElapsed, stCalls, stInCall, stCancels, stLateCalls, stAwait>>

\* task_fn.call() returns Ok or Err (the error is logged); sleep(delay)
CallReturns ==
    /\ stPolling /\ stPc = "in_call"
    /\ stPc' = "delay"
    /\ stElapsed' = FALSE
    /\ stInCall' = stInCall - 1
    /\ UNCHANGED <<stPolling, stWoken, stCalls, stCancels, stLateCalls, stAwait>>

\* task_fn.call() panics: catch_unwind, shutdown and resume_unwind of
\* Runtime::spawn end the task with the panic
CallPanics ==
    /\ stPolling /\ stPc = "in_call"
    /\ stPc' = "panicked"
    /\ stPolling' = FALSE
    /\ stInCall' = stInCall - 1
    /\ UNCHANGED <<stWoken, stElapsed, stCalls, stCancels, stLateCalls, stAwait>>

\* ScheduledTask::cancel: self.task.cancel(), i.e. abort
ScheduledCancel ==
    /\ stAwait = "none"
    /\ stCancels < MaxCancels
    /\ stCancels' = stCancels + 1
    /\ UNCHANGED <<stPc, stPolling, stWoken, stElapsed, stCalls, stInCall, stLateCalls, stAwait>>

\* the runtime drops the future of a task marked by abort that no worker
\* is polling
AbortDrops ==
    /\ StLive /\ ~stPolling
    /\ stCancels > 0
    /\ stPc' = "dropped"
    /\ stInCall' = 0
    /\ UNCHANGED <<stPolling, stWoken, stElapsed, stCalls, stCancels, stLateCalls, stAwait>>

\* task.await: into_future hands out the JoinHandle
ScheduledAwait ==
    /\ stAwait = "none"
    /\ stAwait' = "waiting"
    /\ UNCHANGED <<stPc, stPolling, stWoken, stElapsed, stCalls, stInCall, stCancels, stLateCalls>>

\* JoinHandle::poll on a task that has ended: CanceledError, or shutdown
\* and resume_unwind for a panic
AwaitResolves ==
    /\ stAwait = "waiting"
    /\ stPc \in {"dropped", "panicked"}
    /\ stAwait' = (IF stPc = "dropped" THEN "canceled" ELSE "panic")
    /\ UNCHANGED <<stPc, stPolling, stWoken, stElapsed, stCalls, stInCall, stCancels, stLateCalls>>

\* schedule_with_fixed_delay without initial delay has returned: the task
\* is spawned
InitScheduled ==
    /\ stPc = "call"
    /\ stPolling = FALSE
    /\ stWoken = TRUE
    /\ stElapsed = FALSE
    /\ stCalls = 0
    /\ stInCall = 0
    /\ stCancels = 0
    /\ stLateCalls = 0
    /\ stAwait = "none"

\* schedule_with_fixed_delay has returned: the task starts with the initial
\* delay when that is Some and not zero
InitScheduledInputs ==
    /\ stPc \in {"initial_delay", "call"}
    /\ stPolling = FALSE
    /\ stWoken = TRUE
    /\ stElapsed = FALSE
    /\ stCalls = 0
    /\ stInCall = 0
    /\ stCancels = 0
    /\ stLateCalls = 0
    /\ stAwait = "none"

ScheduledStep(A) ==
    A /\ UNCHANGED <<logVars, groupVars, connVars, pubVars, mergeVars, runVars, codecVars,
                     encVars, batVars, seqVars, wgVars, bbVars>>

NextScheduled ==
    \/ ScheduledStep(PollStart)
    \/ ScheduledStep(SleepPending)
    \/ ScheduledStep(TimerFires)
    \/ ScheduledStep(SleepReady)
    \/ ScheduledStep(CallStart)
    \/ ScheduledStep(CallPending)
    \/ ScheduledStep(CallWakes)
    \/ ScheduledStep(CallReturns)
    \/ ScheduledStep(CallPanics)
    \/ ScheduledStep(ScheduledCancel)
    \/ ScheduledStep(AbortDrops)
    \/ ScheduledStep(ScheduledAwait)
    \/ ScheduledStep(AwaitResolves)

(***************************************************************************)
(* Specifications: each runs one part of the broker and leaves the others  *)
(* in their initial state.                                                 *)
(***************************************************************************)
Init == InitLog /\ InitGroup /\ InitConn /\ InitPub /\ InitMerge /\ InitRuntime /\ InitCodec
        /\ InitEncode /\ InitBatch /\ InitSequence
    /\ InitWaitGroup
    /\ InitBuffer
    /\ InitScheduled

Next == NextLog

Spec == Init /\ [][Next]_vars

SpecGroup == Init /\ [][NextGroup]_vars

SpecConn == Init /\ [][NextConn]_vars

SpecPub == Init /\ [][NextPub]_vars

SpecPublish == Init /\ [][NextPublish]_vars

\* merge_ranges on every list of at most MaxRanges ranges
InitInputs == InitLog /\ InitGroup /\ InitConn /\ InitPub /\ InitMergeInputs /\ InitRuntime /\ InitCodec
    /\ InitEncode /\ InitBatch /\ InitSequence
    /\ InitWaitGroup
    /\ InitBuffer
    /\ InitScheduled

SpecMerge == InitInputs /\ [][NextMerge]_vars

\* the runtime, with the progress its executor guarantees
SpecRuntime == Init /\ [][NextRuntime]_vars /\ FairRuntime

\* the varint codec on every sample integer and buffer
InitCodecOnly ==
    InitLog /\ InitGroup /\ InitConn /\ InitPub /\ InitMerge /\ InitRuntime /\ InitCodecInputs
    /\ InitEncode /\ InitBatch /\ InitSequence
    /\ InitWaitGroup
    /\ InitBuffer
    /\ InitScheduled

SpecCodec == InitCodecOnly /\ [][NextCodec]_vars

\* Response::encode on every sample response and version
InitEncodeOnly ==
    InitLog /\ InitGroup /\ InitConn /\ InitPub /\ InitMerge /\ InitRuntime /\ InitCodec
    /\ InitEncodeInputs /\ InitBatch /\ InitSequence
    /\ InitWaitGroup
    /\ InitBuffer
    /\ InitScheduled

SpecEncode == InitEncodeOnly /\ [][NextEncode]_vars

\* batches / mut_batches on every sample buffer, then calls on the windows
InitBatchOnly ==
    InitLog /\ InitGroup /\ InitConn /\ InitPub /\ InitMerge /\ InitRuntime /\ InitCodec
    /\ InitEncode /\ InitBatchInputs /\ InitSequence
    /\ InitWaitGroup
    /\ InitBuffer
    /\ InitScheduled

SpecBatch == InitBatchOnly /\ [][NextBatch]_vars

\* increment_sequence and back on every sample pair
InitSequenceOnly ==
    InitLog /\ InitGroup /\ InitConn /\ InitPub /\ InitMerge /\ InitRuntime /\ InitCodec
    /\ InitEncode /\ InitBatch /\ InitSequenceInputs
    /\ InitWaitGroup
    /\ InitBuffer
    /\ InitScheduled

SpecSequence == InitSequenceOnly /\ [][NextSequence]_vars

(***************************************************************************)
(* Properties of the commit protocol.                                      *)
(***************************************************************************)
\* the committed split rows of a partition, in commit order
RowsOf(part) ==
    LET idx == {i \in 1..Len(splitRows) : splitRows[i].partition_id = part}
        RECURSIVE Pick(_, _)
        Pick(i, acc) ==
            IF i > Len(splitRows) THEN acc
            ELSE Pick(i + 1, IF i \in idx THEN Append(acc, splitRows[i]) ELSE acc)
    IN  Pick(1, <<>>)

\* the rows tile [0, last end_offset): the first starts at 0, each is
\* non-empty and each starts where the one committed before it ends
Tiles(rows) ==
    /\ rows # <<>> => rows[1].start_offset = 0
    /\ \A i \in 1..Len(rows) : rows[i].start_offset < rows[i].end_offset
    /\ \A i \in 1..(Len(rows) - 1) : rows[i + 1].start_offset = rows[i].end_offset

\* C1: on a partition whose commits all carried record_len >= 1, however the
\* commit_record_batches calls interleave, the split rows in commit order tile
\* [0, max end_offset) without gap or overlap (so the start offsets strictly
\* increase), and every (start, end) returned to a caller is one of these rows
Thm_C1_CommitsSerialized ==
    \A part \in PartitionIds :
        part \notin badLen =>
            /\ Tiles(RowsOf(part))
            /\ \A r \in returned :
                   r.partition_id = part => r \in SeqRange(RowsOf(part))
            /\ \A r1, r2 \in returned :
                   (r1.partition_id = part /\ r2.partition_id = part /\ r1 # r2) =>
                       (r1.end_offset <= r2.start_offset \/ r2.end_offset <= r1.start_offset)

\* two commits that were in flight together have both committed on partition 0
Wit_C1_ConcurrentCommits ==
    /\ history.overlapped
    /\ 0 \in PartitionIds
    /\ 0 \notin badLen
    /\ Len(RowsOf(0)) = 2
    /\ Cardinality(returned) = 2

\* C2 (as claimed): in every reachable state the last_offset of each partition
\* equals the maximum end_offset over its split rows, 0 when it has none
Cex_C2_LastOffsetIsMaxEnd ==
    \A part \in PartitionIds :
        topicPartitions[part] =
            (IF RowsOf(part) = <<>> THEN 0
             ELSE SetMax({r.end_offset : r \in SeqRange(RowsOf(part))}))

\* the records of a FetchResponse partition, batch after batch
FetchedRecords(data) ==
    FlattenSeq([i \in 1..Len(data.records) |-> BatchRecords(data.records[i])])

\* C3: after n Produce requests of one batch of one record each, sent one
\* after another to a partition, a Fetch of it from offset 0 returns exactly
\* the n records, in the order they were produced, at offsets 0..n-1, and
\* high_watermark = n - 1
Thm_C3_SequentialProduceThenFetch ==
    (/\ fetchResp.kind = "fetch"
     /\ fetchCtx.sequential
     /\ fetchResp.fetch_offset = 0
     /\ fetchResp.data.error_code = NONE) =>
        LET tags == {pt[2] : pt \in {x \in fetchCtx.produced : x[1] = fetchResp.partition}}
            n == Cardinality(tags)
            recs == FetchedRecords(fetchResp.data)
        IN  /\ Len(recs) = n
            /\ \A i \in 1..n : recs[i].offset = i - 1
            /\ {recs[i].tag : i \in 1..n} = tags
            /\ \A i \in 1..(n - 1) : recs[i].tag < recs[i + 1].tag
            /\ fetchResp.data.high_watermark = n - 1

\* a Fetch from offset 0 after two sequential one-record Produce requests
Wit_C3_TwoProducedThenFetched ==
    /\ fetchResp.kind = "fetch"
    /\ fetchCtx.sequential
    /\ fetchResp.fetch_offset = 0
    /\ fetchResp.data.error_code = NONE
    /\ Cardinality({x \in fetchCtx.produced : x[1] = fetchResp.partition}) = 2
    /\ Len(fetchResp.data.records) = 2

\* the split ids a FetchResponse partition carries batches of
FetchedIds == {fetchResp.data.records[i].tag : i \in 1..Len(fetchResp.data.records)}

\* C4 (as claimed): a Fetch returns, and counts in high_watermark, only splits
\* whose commit call has already returned (start, end) to the producing handler
Cex_C4_FetchSeesOnlyReturned ==
    fetchResp.kind = "fetch" => fetchCtx.splitIds \subseteq fetchCtx.returnedIds

\* C4 (amended): a Fetch returns, and counts in high_watermark, only splits
\* whose commit transaction has committed, and never a split of a commit that
\* was rolled back
Thm_C4_FetchSeesOnlyCommitted ==
    fetchResp.kind = "fetch" =>
        /\ fetchCtx.splitIds \subseteq fetchCtx.committedIds
        /\ fetchCtx.splitIds \cap fetchCtx.abortedIds = {}
        /\ FetchedIds \subseteq fetchCtx.committedIds \ fetchCtx.abortedIds
        /\ (fetchResp.data.error_code = NONE /\ fetchResp.data.high_watermark >= 0) =>
               \E r \in SeqRange(splitRows) :
                   /\ r.split_id \in fetchCtx.committedIds \ fetchCtx.abortedIds
                   /\ r.partition_id = fetchResp.partition
                   /\ r.end_offset = fetchResp.data.high_watermark + 1

\* a Fetch that ran between the commit of a split and the return of its
\* commit call, and returned the split
Wit_C4_FetchBeforeReturn ==
    /\ fetchResp.kind = "fetch"
    /\ fetchResp.data.error_code = NONE
    /\ FetchedIds # {}
    /\ \E h \in Handlers :
           /\ handler[h].pc = "committed"
           /\ handler[h].split_id \in FetchedIds

\* C17: every committed split row has start_offset < end_offset, whatever
\* record bytes or entry count the client sent.
Cex_C17_SplitRowsNonEmpty ==
    \A i \in 1..Len(splitRows) : splitRows[i].start_offset < splitRows[i].end_offset

\* C18: a successful Fetch of an existing partition returns high_watermark and
\* last_stable_offset equal to the partition's last_offset - 1 at fetch time,
\* whatever the fetch_offset (stated here for partitions whose commits all
\* carried record_len >= 1).
Cex_C18_HighWatermarkIsLastOffset ==
    (/\ fetchResp # NoResp
     /\ fetchResp.partition \in PartitionIds
     /\ fetchResp.partition \notin badLen
     /\ fetchResp.data.error_code = NONE) =>
        /\ fetchResp.data.high_watermark = topicPartitions[fetchResp.partition] - 1
        /\ fetchResp.data.last_stable_offset = topicPartitions[fetchResp.partition] - 1

(***************************************************************************)
(* Properties of the group coordinator.                                    *)
(***************************************************************************)
\* a handler whose request of this kind was answered without an error code
Answered(h, kind) ==
    /\ groupHandler[h].pc = "done"
    /\ groupHandler[h].kind = kind
    /\ groupHandler[h].resp.error_code = NONE

\* C5: every successful JoinGroup adds exactly 1 to the stored generation_id
\* and nothing else changes it: the stored generation_id is the number of
\* JoinGroup requests that succeeded so far (SyncGroup requests, failed joins
\* and the creation of the row leave it alone), and a successful JoinGroup
\* reports the generation it stored, which is 1 for the first join of a group.
Thm_C5_GenerationCountsJoins ==
    /\ groupRow.generation_id = joinCount
    /\ \A h \in Handlers :
           Answered(h, "join") =>
               /\ groupHandler[h].resp.generation_id = joinCount
               /\ joinCount >= 1

\* a member re-joined (generation 2 with one generated member id) and a
\* SyncGroup was then answered
Wit_C5_RejoinThenSync ==
    /\ joinCount = 2
    /\ generated = 1
    /\ groupRow.generation_id = 2
    /\ DOMAIN groupRow.members = {GeneratedId(1)}
    /\ \E h \in Handlers : Answered(h, "sync")

\* the protocol names every current member declared
CommonProtocols(g) ==
    {p \in ProtocolNames : \A m \in DOMAIN g.members : p \in g.members[m].protocols}

\* C6: whenever the group has members, its chosen protocol is in the
\* intersection of the members' protocol sets (so a JoinGroup that would
\* leave the intersection empty stores nothing).
Cex_C6_ProtocolInIntersection ==
    DOMAIN groupRow.members # {} => groupRow.protocol \in CommonProtocols(groupRow)

\* C7: a SyncGroup of a member that is not the leader and carries no
\* assignments returns the assignment the leader's last SyncGroup listed for
\* that member.
Cex_C7_SyncReturnsLeaderAssignment ==
    \A h \in Handlers :
        (/\ Answered(h, "sync")
         /\ groupHandler[h].member_id # groupRow.leader_id
         /\ groupHandler[h].member_id \in DOMAIN leaderStored)
            => groupHandler[h].resp.assignment = leaderStored[groupHandler[h].member_id]

(***************************************************************************)
(* Properties of the packet dispatcher.                                    *)
(***************************************************************************)
\* the frames that were written completely
CompleteFrames == SelectSeq(netOut, LAMBDA f : f.complete)

\* frame i answers the i-th decoded request and carries its correlation_id
AnswersInOrder ==
    /\ Len(netOut) <= Len(decoded)
    /\ \A i \in 1..Len(netOut) :
           /\ netOut[i].seq = decoded[i].seq
           /\ netOut[i].correlation_id = decoded[i].correlation_id

Cex_C9_ShutdownFinishesRequest ==
    closeReason = "shutdown" => closedAt = "idle"

DeclaredVote(g, m) ==
    declared[m][CHOOSE i \in 1..Len(declared[m]) :
                    /\ declared[m][i] \in candidate_protocols(g)
                    /\ \A j \in 1..(i - 1) : declared[m][j] \notin candidate_protocols(g)]

DeclaredVotes(g, p) == Cardinality({m \in DOMAIN g.members : DeclaredVote(g, m) = p})

\* the name with the most such votes, the lexicographically first among equals
MostVoted(g) ==
    FirstName({p \in ProtocolNames :
                  /\ DeclaredVotes(g, p) > 0
                  /\ \A q \in ProtocolNames : DeclaredVotes(g, q) <= DeclaredVotes(g, p)})

\* C19: after every JoinGroup the protocol of the group is the name with the
\* most votes, each member voting for the first candidate in its declared
\* order, ties going to the lexicographically first name.
Cex_C19_ProtocolHasMostVotes ==
    (groupRow.exists /\ DOMAIN groupRow.members # {}) =>
        groupRow.protocol = MostVoted(groupRow)

\* C20: in every stored GroupMeta, a non-empty members map comes with a
\* leader_id and a protocol_type, and protocol is set exactly when members is
\* non-empty.
Thm_C20_GroupMetaInvariant ==
    groupRow.exists =>
        /\ DOMAIN groupRow.members # {} =>
               groupRow.leader_id # NoneVal /\ groupRow.protocol_type # NoneVal
        /\ groupRow.protocol # NoneVal <=> DOMAIN groupRow.members # {}

\* two members joined the group and a SyncGroup was answered with an
\* assignment
Wit_C20_TwoMembersSynced ==
    /\ groupRow.exists
    /\ Cardinality(DOMAIN groupRow.members) = 2
    /\ \E h \in Handlers :
           /\ Answered(h, "sync")
           /\ groupHandler[h].resp.assignment # EmptyBytes

(***************************************************************************)
(* Claims about the pub/sub broker.                                        *)
(***************************************************************************)
\* sorted by start, no empty range, neighbours neither overlap nor touch
Normalized(ranges) ==
    \A i \in 1..Len(ranges) :
        /\ ranges[i][1] < ranges[i][2]
        /\ i < Len(ranges) => ranges[i][2] < ranges[i + 1][1]

\* C11: after any sequence of Acknowledge calls on the subscription, the stored
\* acks are the normalized range set of exactly the ids acknowledged so far.
Cex_C11_AcksAreAcknowledgedIds ==
    subscribed => Normalized(acks) /\ Covered(acks) = ackedIds

\* C12: an Acknowledge of well-formed ack_ids on the existing subscription
\* succeeds.
Cex_C12_AcknowledgeSucceeds ==
    (ackResp # NoPubResp /\ ackResp.well_formed) => ackResp.ok

\* C13: every message a Pull returns has an id inside one of the unacked
\* intervals computed for that pull (outside the stored acks, below the tail
\* bound).
Cex_C13_PulledIdsInIntervals ==
    pullResp # NoPubResp =>
        \A i \in 1..Len(pullResp.ids) : pullResp.ids[i] \in Covered(pullResp.intervals)

\* C14: a Pull with max_messages = M answers with at most M messages.
Cex_C14_PullAtMostMax ==
    pullResp # NoPubResp => Len(pullResp.ids) <= pullResp.max_messages

\* C15: a Publish of k messages returns the decimal strings of k consecutive
\* offsets, in order, and no message_id is returned by two Publish calls,
\* however the calls interleave.
Thm_C15_PublishIdsConsecutiveUnique ==
    /\ \A r \in pubResponses :
           /\ Len(r.message_ids) = r.count
           /\ \E start \in Offsets :
                  \A i \in 1..r.count : r.message_ids[i] = IdString(start + i - 1)
    /\ \A r1, r2 \in pubResponses :
           r1 # r2 => SeqRange(r1.message_ids) \cap SeqRange(r2.message_ids) = {}

\* two Publish calls of MaxMessages messages were answered, and the one that
\* started later got the lower offsets
Wit_C15_OvertakenPublish ==
    \E r1, r2 \in pubResponses :
        /\ r1.req < r2.req
        /\ r1.count = MaxMessages /\ r2.count = MaxMessages
        /\ r2.message_ids[1] = IdString(0)
        /\ r1.message_ids[1] = IdString(MaxMessages)

(***************************************************************************)
(* Claims about merge_ranges.                                              *)
(***************************************************************************)
\* sorted by start, no empty range, neighbours do not overlap
SortedDisjoint(ranges) ==
    \A i \in 1..Len(ranges) :
        /\ ranges[i][1] < ranges[i][2]
        /\ i < Len(ranges) => ranges[i][2] <= ranges[i + 1][1]

\* C16: merge_ranges(R) is sorted by start, pairwise disjoint and covers
\* exactly the union of R; every reordering of R gives the same result, and
\* so does merging the result again.
Thm_C16_MergeCanonical ==
    mergePc # "input" =>
        /\ SortedDisjoint(mergeOut)
        /\ Covered(mergeOut) = Covered(mergeIn)
        /\ mergeOut = mergeFirst

\* an unsorted list of MaxRanges ranges with overlaps was merged, reordered,
\* merged and merged again
Wit_C16_ReorderedRemerged ==
    /\ mergePc = "remerged"
    /\ mergeRuns >= 2
    /\ Len(mergeIn) = MaxRanges
    /\ Len(mergeOut) < Len(mergeIn)
    /\ Len(mergeOut) >= 2
    /\ SortRanges(mergeIn) # mergeIn

(***************************************************************************)
(* Failure handling on the Kafka path.                                     *)
(***************************************************************************)
\* the offsets the committed split rows of a partition span, added up
SpannedBy(rows) == SumSeq([i \in 1..Len(rows) |-> rows[i].end_offset - rows[i].start_offset])

\* C21: a commit_record_batches transaction that fails leaves the metadata as
\* it was: no split row carries the split id of a failed call, last_offset of
\* every partition is what the committed rows add up to, and the blob written
\* for the failed call is still in object storage
Thm_C21_FailedCommitLeavesMetadata ==
    /\ \A id \in abortedIds :
           /\ id \in DOMAIN blobs
           /\ \A i \in 1..Len(splitRows) : splitRows[i].split_id # id
    /\ \A part \in PartitionIds : topicPartitions[part] = SpannedBy(RowsOf(part))

\* a commit failed and was answered while another commit has added a row
Wit_C21_FailedBesideCommitted ==
    /\ splitRows # <<>>
    /\ \E h \in Handlers :
           /\ handler[h].pc = "done"
           /\ handler[h].kind = "produce"
           /\ handler[h].tag \in abortedIds
           /\ handler[h].resp.error_code = KAFKA_STORAGE_ERROR

\* C22 (as claimed): a failure of the metadata store is answered with
\* UNKNOWN_SERVER_ERROR: a Produce whose commit_record_batches failed, and a
\* Fetch that found no row of the topic
Cex_C22_MetaFailureIsUnknownServerError ==
    /\ \A h \in Handlers :
           (/\ handler[h].pc = "done"
            /\ handler[h].kind = "produce"
            /\ handler[h].tag \in abortedIds) =>
               handler[h].resp.error_code = UNKNOWN_SERVER_ERROR
    /\ (fetchResp # NoResp /\ topicFormat = "none") =>
           fetchResp.data.error_code = UNKNOWN_SERVER_ERROR

\* C23 (as claimed): the partition entry of a FetchResponse, success or error,
\* carries the index of the partition that was fetched
Cex_C23_EntryCarriesPartitionIndex ==
    fetchResp # NoResp => fetchResp.data.partition_index = fetchResp.partition

(***************************************************************************)
(* Properties of the runtime.                                              *)
(***************************************************************************)
\* C24: once a task spawned through Runtime::spawn or Runtime::spawn_blocking
\* has panicked, the shutdown latch is at 0 and stays there, and every
\* wait_shutdown() that is waiting then, or is called later, returns
Thm_C24_PanicReleasesWaiters ==
    /\ []((\E t \in Tasks : task[t].pc = "panicked") => latch = 0)
    /\ \A w \in Waiters :
           ((\E t \in Tasks : Panicked(t)) /\ waiter[w].pc = "waiting") ~>
               (waiter[w].pc = "returned")

\* a blocking task panicked without any call of shutdown() from outside; one
\* wait_shutdown called before the panic and one called after it have returned
Wit_C24_WaitersBeforeAndAfter ==
    /\ \E t \in Tasks : task[t].pc = "panicked" /\ task[t].blocking
    /\ \E w1, w2 \in Waiters :
           /\ waiter[w1].pc = "returned" /\ ~waiter[w1].afterPanic
           /\ waiter[w2].pc = "returned" /\ waiter[w2].afterPanic

(***************************************************************************)
(* Properties of the varint codec.                                         *)
(***************************************************************************)
\* C25 (as claimed): for every i32 (i64) value, decoding the bytes that
\* VarInt (VarLong) encode wrote yields the value again, and calculate_size is
\* the number of bytes written
Cex_C25_VarintRoundTrip ==
    (codecPc = "decoded" /\ codecIn.src = "value") =>
        /\ codecRes.kind = "ok"
        /\ codecRes.value = codecIn.value
        /\ codecSize = Len(codecBuf)

\* C26 (as claimed): on a buffer whose first 5 (varint) or 10 (varlong) bytes
\* all have the continuation bit set, the decoder returns an error: it does
\* not panic, return a value, or read a further byte
Cex_C26_DecoderBailsOut ==
    (/\ codecPc = "decoded"
     /\ codecIn.src = "wire"
     /\ Len(codecBuf) >= MaxVarBytes(codecIn.w)
     /\ \A i \in 1..MaxVarBytes(codecIn.w) : codecBuf[i] >= 128) =>
        /\ codecRes.kind \notin {"ok", "panic"}
        /\ codecRes.consumed <= MaxVarBytes(codecIn.w)

(***************************************************************************)
(* Properties of the response encoding.                                    *)
(***************************************************************************)
\* C27 (as claimed): for every response and supported version, write puts
\* calculate_size bytes into the buffer, and the length prefix of
\* Response::encode counts the header and body bytes that follow it
Cex_C27_WriteMatchesSize ==
    encPc = "encoded" =>
        /\ encOut.body.n = encOut.body_size
        /\ encOut.n = Int32_SIZE + encOut.prefix

\* C27 (amended): whenever write returns Ok it has put calculate_size bytes
\* into the buffer, and whenever Response::encode returns Ok its length
\* prefix counts the header and body bytes that follow it; Response::encode
\* returns Err exactly when the write of the body does
Thm_C27_WriteMatchesSizeWhenOk ==
    encPc = "encoded" =>
        /\ encOut.body.ok => encOut.body.n = encOut.body_size
        /\ encOut.ok => encOut.n = Int32_SIZE + encOut.prefix
        /\ encOut.ok = encOut.body.ok

\* a Fetch response of a flexible version with a partition whose
\* aborted_transactions is None has been encoded
Wit_C27_FlexibleNoneArray ==
    /\ encPc = "encoded"
    /\ encOut.ok
    /\ encIn.value.api = "fetch"
    /\ encIn.version >= 12
    /\ \E i \in 1..Len(encIn.value.responses) :
           \E j \in 1..Len(encIn.value.responses[i].partitions) :
               ~encIn.value.responses[i].partitions[j].aborted_transactions.some

(***************************************************************************)
(* Properties of the record batches.                                       *)
(***************************************************************************)
\* the length field of a window
DeclaredLength(buf, w) ==
    FromBE(SubSeq(buf, w.start + LENGTH_OFFSET + 1, w.start + LENGTH_OFFSET + LENGTH_LENGTH),
           TRUE)

\* C28: batches and mut_batches either return an error or yield windows
\* that are each exactly length + 12 and at least 61 bytes long, and every
\* accessor of a fixed field reads inside its window
Cex_C28_WindowsHoldTheHeader ==
    /\ batPc /= "diverged"
    /\ batPc = "panicked" => batOp.op \in {"set_last_offset", "set_partition_leader_epoch"}
    /\ batPc = "split" =>
           \A i \in 1..Len(batOut.windows) :
               /\ batOut.windows[i].size
                      = DeclaredLength(batBuf, batOut.windows[i]) + LOG_OVERHEAD
               /\ batOut.windows[i].size >= RECORD_BATCH_OVERHEAD

\* the bytes of buf outside the n bytes at offset `at` of window w are
\* those of before
OnlyChanged(before, buf, w, at, n) ==
    /\ Len(buf) = Len(before)
    /\ \A i \in 1..Len(buf) :
           (i <= w.start + at \/ i > w.start + at + n) => buf[i] = before[i]

\* C29: set_last_offset(v) changes only the 8 bytes of the base offset, to
\* v - last_offset_delta, so that last_offset() is v afterwards, and
\* set_partition_leader_epoch(e) changes only the 4 bytes of the partition
\* leader epoch, to e
Cex_C29_SettersChangeOnlyTheirField ==
    /\ batOp.op = "set_last_offset" =>
           LET w == batOut.windows[batOp.window] IN
           /\ batOp.kind = "ok"
           /\ OnlyChanged(batOp.before, batBuf, w, BASE_OFFSET_OFFSET, BASE_OFFSET_LENGTH)
           /\ view_read(WindowBytes(batBuf, w), BASE_OFFSET_OFFSET, BASE_OFFSET_LENGTH,
                        TRUE).value
                  = batOp.arg - last_offset_delta(WindowBytes(batOp.before, w)).value
           /\ last_offset(WindowBytes(batBuf, w)) = [kind |-> "ok", value |-> batOp.arg]
    /\ batOp.op = "set_partition_leader_epoch" =>
           LET w == batOut.windows[batOp.window] IN
           /\ batOp.kind = "ok"
           /\ OnlyChanged(batOp.before, batBuf, w, PARTITION_LEADER_EPOCH_OFFSET,
                          PARTITION_LEADER_EPOCH_LENGTH)
           /\ view_read(WindowBytes(batBuf, w), PARTITION_LEADER_EPOCH_OFFSET,
                        PARTITION_LEADER_EPOCH_LENGTH, TRUE).value = batOp.arg

(***************************************************************************)
(* Properties of the producer sequences.                                   *)
(***************************************************************************)
\* C30: for a sequence and an increment in 0..=i32::MAX, increment_sequence
\* overflows nowhere and returns a value in 0..=i32::MAX, and
\* decrement_sequence of that value by the same amount overflows nowhere
\* and returns the sequence
Thm_C30_SequenceWrapsAtZero ==
    /\ seqPc /= "input" =>
           /\ ~seqInc.of
           /\ seqInc.v >= 0
           /\ seqInc.v <= I32_MAX
    /\ seqPc = "decremented" =>
           /\ ~seqDec.of
           /\ seqDec.v = seqIn.sequence

\* i32::MAX incremented by 1 wrapped to 0 and was decremented back
Wit_C30_WrappedAndBack ==
    /\ seqPc = "decremented"
    /\ seqIn = [sequence |-> I32_MAX, increment |-> 1]
    /\ seqInc.v = 0
    /\ seqDec.v = I32_MAX

(***************************************************************************)
(* Properties of the wait group.                                           *)
(***************************************************************************)
SpecWaitGroup == Init /\ [][NextWaitGroup]_vars /\ FairWaitGroup

\* C31: the future of a WaitGroup is never ready while the WaitGroup or a
\* clone of it is alive, and once it is awaited and every clone is dropped
\* it becomes ready, wherever the polls of the future fall between the drops
Thm_C31_ResolvesWhenAllDropped ==
    /\ [](wgPc = "ready" => (~wgMain /\ wgClones = {}))
    /\ (wgPc /= "none" /\ wgClones = {}) ~> (wgPc = "ready")

\* the future became ready although the last clone was dropped in the
\* middle of a poll that went on to return Pending
Wit_C31_LastDropDuringPoll ==
    /\ wgPc = "ready"
    /\ wgSpawned = Workers
    /\ wgLastDropAt \in {"upgraded", "registered"}

(***************************************************************************)
(* Properties of concurrent requests on one group.                         *)
(***************************************************************************)
\* C32: no JoinGroup is lost, however the requests interleave: the stored
\* members are the members of all the joins that succeeded, the stored
\* generation_id is the number of those joins, and a join is answered with
\* the generation_id that its own commit made the count (so no two answers
\* carry the same one) and with all the members stored
Thm_C32_NoJoinIsLost ==
    /\ DOMAIN groupRow.members = DOMAIN declared
    /\ groupRow.generation_id = joinCount
    /\ \A h \in Handlers :
           Answered(h, "join") =>
               /\ groupHandler[h].resp.generation_id = joinCount
               /\ groupHandler[h].member_id \in DOMAIN groupRow.members
               /\ DOMAIN groupHandler[h].resp.members = DOMAIN groupRow.members

\* two first joins raced: the one that was given the first member id was
\* answered second, with generation 2 and both members
Wit_C32_FirstJoinsRaced ==
    \E h \in Handlers :
        /\ Answered(h, "join")
        /\ groupHandler[h].caller = EmptyBytes
        /\ groupHandler[h].member_id = GeneratedId(1)
        /\ groupHandler[h].resp.generation_id = 2
        /\ DOMAIN groupRow.members = {GeneratedId(1), GeneratedId(2)}

\* handler h is answered in this step, without an error code, for the
\* request of the given kind it holds the row lock for
Commits(h, kind) ==
    /\ groupHandler[h].pc = "locked"
    /\ groupHandler[h].kind = kind
    /\ groupHandler'[h].pc = "done"
    /\ groupHandler'[h].resp.error_code = NONE

\* C33: a SyncGroup that is answered without error stores the listed
\* assignment for every member it lists and leaves the assignment of every
\* other member, the generation_id, the leader_id, the protocol and the
\* set of members as they were
Cex_C33_SyncChangesListedOnly ==
    [][\A h \in Handlers :
          Commits(h, "sync") =>
              /\ groupRow'.generation_id = groupRow.generation_id
              /\ groupRow'.leader_id = groupRow.leader_id
              /\ groupRow'.protocol = groupRow.protocol
              /\ DOMAIN groupRow'.members = DOMAIN groupRow.members
              /\ \A m \in DOMAIN groupRow.members :
                     groupRow'.members[m].assignment =
                         IF m \in DOMAIN groupHandler[h].assignments
                         THEN groupHandler[h].assignments[m]
                         ELSE groupRow.members[m].assignment]_vars

\* C34: the mutator returns an error only to a call without
\* insert_on_missing that found no row; the handler then answers
\* INVALID_GROUP_ID, and the step writes no group row and changes none
Thm_C34_MutatorErrorWritesNothing ==
    [][\A h \in Handlers :
          /\ (/\ groupHandler[h].pc = "locked"
              /\ ~groupHandler[h].read.exists
              /\ groupHandler'[h] # groupHandler[h])
                 => /\ groupHandler[h].caller # EmptyBytes
                    /\ groupHandler'[h].pc = "done"
                    /\ groupHandler'[h].resp = ErrorGroupResp(INVALID_GROUP_ID)
                    /\ groupRow' = groupRow
          /\ (/\ groupHandler[h].pc # "done"
              /\ groupHandler'[h].pc = "done"
              /\ groupHandler'[h].resp.error_code = INVALID_GROUP_ID)
                 => groupRow' = groupRow]_vars

\* a SyncGroup of a known member id was answered INVALID_GROUP_ID because
\* it found no row, and the row another request created meanwhile is as
\* that request left it
Wit_C34_InvalidGroupBesideNewRow ==
    \E h \in Handlers :
        /\ groupHandler[h].pc = "done"
        /\ groupHandler[h].kind = "sync"
        /\ groupHandler[h].resp.error_code = INVALID_GROUP_ID
        /\ groupRow = NewGroupMeta

\* C35: a group with members has a leader that is one of them, the first
\* JoinGroup that succeeds makes its member the leader, no later request
\* changes the stored leader_id, and every JoinGroup answer names it
Thm_C35_FirstMemberStaysLeader ==
    /\ [](/\ joinCount = 0 => groupRow.leader_id = NoneVal
          /\ joinCount > 0 => groupRow.leader_id \in DOMAIN groupRow.members
          /\ \A h \in Handlers :
                 Answered(h, "join") => groupHandler[h].resp.leader = groupRow.leader_id)
    /\ [][/\ groupRow.leader_id # NoneVal => groupRow'.leader_id = groupRow.leader_id
          /\ \A h \in Handlers :
                 (Commits(h, "join") /\ joinCount = 0)
                     => groupRow'.leader_id = groupHandler[h].member_id]_vars

\* the second member joined and a SyncGroup followed: the leader is still
\* the first member
Wit_C35_LeaderAfterSecondJoin ==
    /\ joinCount = 2
    /\ DOMAIN groupRow.members = {GeneratedId(1), GeneratedId(2)}
    /\ groupRow.leader_id \in DOMAIN groupRow.members
    /\ \E h \in Handlers : Answered(h, "sync")

(***************************************************************************)
(* Pull on a database that holds acknowledgements.                         *)
(***************************************************************************)
InitStored ==
    InitLog /\ InitGroup /\ InitConn /\ InitPubStored /\ InitMerge /\ InitRuntime /\ InitCodec
    /\ InitEncode /\ InitBatch /\ InitSequence
    /\ InitWaitGroup
    /\ InitBuffer
    /\ InitScheduled

\* the pub/sub broker started on stored acknowledgements
SpecPullStored == InitStored /\ [][NextPull]_vars

Cex_C37_BatchesTerminate ==
    \/ batPc \in {"input", "split", "failed"}
    \/ batPc = "panicked" /\ batOp.op /= "none"

(***************************************************************************)
(* Properties of BufferByUnordered.                                        *)
(***************************************************************************)
\* buffer_by_unordered on every sample stream and max_size
InitBufferOnly ==
    InitLog /\ InitGroup /\ InitConn /\ InitPub /\ InitMerge /\ InitRuntime /\ InitCodec
    /\ InitEncode /\ InitBatch /\ InitSequence
    /\ InitWaitGroup /\ InitBufferInputs
    /\ InitScheduled

SpecBuffer == InitBufferOnly /\ [][NextBuffer]_vars

\* C38: no output is yielded twice, and the stream ends only after the
\* input stream has ended and the output of every pair it produced has been
\* yielded
Cex_C38_EndsAfterEveryOutput ==
    /\ \A i, j \in 1..Len(bbYielded) : i /= j => bbYielded[i] /= bbYielded[j]
    /\ bbPc = "ended" =>
           /\ bbDone
           /\ {bbYielded[i] : i \in 1..Len(bbYielded)} = 1..Len(bbStream)

\* the futures in progress whose size is a value near 2^64
BigInProgress == {f \in bbInProgress : bbStream[f] < 0}

RECURSIVE SumOfSizes(_)
SumOfSizes(futs) ==
    IF futs = {} THEN 0
    ELSE LET f == CHOOSE x \in futs : TRUE IN bbStream[f] + SumOfSizes(futs \ {f})

\* C39: total_size is the sum of the sizes of the futures in progress, and
\* the sum is at most max_size unless exactly one future of non-zero size
\* is in progress
Cex_C39_TotalSizeIsTheSum ==
    /\ bbTotal = SumOfSizes(bbInProgress)
    /\ Cardinality(BigInProgress) = (IF bbTotal < 0 THEN 1 ELSE 0)
    /\ \/ bbTotal >= 0 /\ bbTotal <= bbMax
       \/ Cardinality({f \in bbInProgress : bbStream[f] /= 0}) = 1

(***************************************************************************)
(* Properties of a scheduled task.                                         *)
(***************************************************************************)
InitScheduledOnly ==
    InitLog /\ InitGroup /\ InitConn /\ InitPub /\ InitMerge /\ InitRuntime /\ InitCodec
    /\ InitEncode /\ InitBatch /\ InitSequence
    /\ InitWaitGroup /\ InitBuffer /\ InitScheduledInputs

SpecScheduled == InitScheduledOnly /\ [][NextScheduled]_vars

\* C40: task_fn runs one call at a time, no call of task_fn starts after a
\* cancel has returned, and an await after a cancel resolves with
\* CanceledError
Cex_C40_NoCallAfterCancel ==
    /\ stInCall <= 1
    /\ stLateCalls = 0
    /\ (stCancels > 0 /\ stAwait \notin {"none", "waiting"}) => stAwait = "canceled"

====
